---- MODULE Spec2Model ----
(***************************************************************************)
(* Model of multi_pyspin (the camera session library) and of the capture  *)
(* loop of multi_pyspin_gui that drives it, of stereo_pyspin with          *)
(* stereo_pyspin_gui, and of stereo_bfs_pyspin.  The three are separate    *)
(* programs: `program` says which one this run of the model is.            *)
(*                                                                         *)
(* The vendor SDK (PySpin) is the environment: each SDK call is an         *)
(* operator of the camera state and of an environment input that says how  *)
(* the device answers (a device error, the kind of frame a grab yields).   *)
(* Every library function is an operator returning an outcome record       *)
(*   [res, devcall, ret, cam]                                              *)
(* res is "ok" or the error raised, devcall the SDK method that was        *)
(* invoked ("none" when a guard raised first), ret the returned value and  *)
(* cam the camera states afterwards.                                       *)
(***************************************************************************)
EXTENDS Integers, Sequences, FiniteSets, TLC

\* Serial numbers of the cameras that can be attached to the host.
Serials == {"A", "B"}

\* _SERIALS[cam_num] of a GUI slot that has not been set up.
None == "None"

\* Bounds of the model.
MaxNumCams == 2    \* largest number of GUI camera slots
MaxImages == 2     \* largest number of images of one capture request
MaxBursts == 2     \* largest burst count of one capture request
MaxFrameId == 3    \* a camera that has stamped this many frames is not grabbed from by the API client
MaxQueue == 1      \* buttons of the stereo GUI pressed during one plt.pause
MaxCmds == 2       \* entries of an init list
MaxCallbacks == 3  \* callbacks enqueued in one run of a main loop
MaxEvents == 2     \* clicks handled by one update of the figure
MaxTime == 6       \* ticks of the clock after a capture began
MaxDelay == 2      \* the delay field, in ticks
MaxSamples == 4    \* stands for timestamp_offset_iterations (20 in multi_pyspin)

VARIABLES
    program,       \* the program that runs: "multi", "stereo" or "bfs"
    stereo,        \* globals of stereo_pyspin and stereo_pyspin_gui, position of its main loop
    bfs,           \* globals of stereo_bfs_pyspin and the position of its client
    SERIAL_DICT,   \* keys of multi_pyspin._SERIAL_DICT: the registered serials
    cam,           \* SDK camera objects: serial -> [init, streaming, frame, unreleased,
                   \* offset_current];
                   \* frame: the id the running stream stamps on its next frame,
                   \* unreleased: images of the running stream grabbed and not released
    last,          \* outcome of the most recent public library call of the API client
    call,          \* the public function the client thread is inside of, where
                   \* hot-plug callbacks may run between its steps
    conf,           \* position and locals of _setup / __init_cam applying an init list
    est,           \* _compute_timestamp_offset: the samples taken so far and the result
    pace,          \* _save_images: the clock and the pacing of the image loop
    gui,           \* the main loop of a GUI program: its window, its queue and the callbacks it has run
    preview,       \* the last pass of _stream_images_wrapped: the slots grabbed and released
    NUM_CAMS,      \* multi_pyspin_gui._NUM_CAMS
    SERIALS,       \* multi_pyspin_gui._SERIALS: cam_num -> serial or None
    STREAMS,       \* multi_pyspin_gui._STREAMS: cam_num -> BOOLEAN
    cap,           \* position and locals of _save_images
    hist           \* what the running capture has done so far; kept when it exits,
                   \* until the next callback runs

vars == <<program, stereo, bfs, SERIAL_DICT, cam, last, call, preview, gui, pace, est, conf, NUM_CAMS, SERIALS, STREAMS, cap, hist>>
libVars == <<SERIAL_DICT, cam>>
guiVars == <<NUM_CAMS, SERIALS, STREAMS>>

(***************************************************************************)
(* Lifecycle state of a camera, read off the SDK's flags.                  *)
(***************************************************************************)
Lifecycle(c, s) ==
    IF c[s].streaming THEN "Streaming"
    ELSE IF c[s].init THEN "Initialized"
    ELSE "Found"

\* An image dict returned by _get_image: {} for an incomplete image.
EmptyDict == [complete |-> FALSE, frameid |-> -1]
ImageDict(id) == [complete |-> TRUE, frameid |-> id]
NoRet == [complete |-> FALSE, frameid |-> -2]

Outcome(res, devcall, ret, c) == [res |-> res, devcall |-> devcall, ret |-> ret, cam |-> c]

(***************************************************************************)
(* The SDK.  devfail: the device reports an error for this call.           *)
(***************************************************************************)
\* The effect of cam.Init().  offset_current: the timestamp offset stored for
\* the camera was estimated since the camera last became initialized; a
\* transition from not initialized to initialized leaves any stored offset
\* behind it.
Initialize(c, s) ==
    IF c[s].init THEN c ELSE [c EXCEPT ![s].init = TRUE, ![s].offset_current = FALSE]

\* cam.Init(): initializes; harmless on a camera that is already initialized
\* (_handle_cam_arrival initializes every camera and _setup calls Init again).
SdkInit(c, s, devfail) ==
    IF devfail THEN Outcome("sdk_error", "Init", NoRet, c)
    ELSE Outcome("ok", "Init", NoRet, Initialize(c, s))

\* cam.DeInit().  What the SDK does on a streaming camera, or on one that is
\* not initialized, is not decided by this repository: `lenient` chooses
\* between the SDK refusing and the SDK going through with it.
SdkDeInit(c, s, devfail, lenient) ==
    IF devfail THEN Outcome("sdk_error", "DeInit", NoRet, c)
    ELSE IF c[s].streaming THEN
        IF lenient
        THEN Outcome("ok", "DeInit", NoRet,
                     [c EXCEPT ![s].streaming = FALSE, ![s].init = FALSE,
                               ![s].frame = 0, ![s].unreleased = 0])
        ELSE Outcome("sdk_error", "DeInit", NoRet, c)
    ELSE IF c[s].init THEN Outcome("ok", "DeInit", NoRet, [c EXCEPT ![s].init = FALSE])
    ELSE IF lenient THEN Outcome("ok", "DeInit", NoRet, c)
    ELSE Outcome("sdk_error", "DeInit", NoRet, c)

\* cam.BeginAcquisition(): a new stream; frame ids restart at 0 and the
\* buffer pool is fresh.  The SDK refuses on a camera that already streams.
SdkBeginAcquisition(c, s, devfail) ==
    IF devfail \/ c[s].streaming THEN Outcome("sdk_error", "BeginAcquisition", NoRet, c)
    ELSE Outcome("ok", "BeginAcquisition", NoRet,
                 [c EXCEPT ![s].streaming = TRUE, ![s].frame = 0, ![s].unreleased = 0])

\* cam.EndAcquisition(): the SDK refuses on a camera that does not stream.
\* frame and unreleased are counts of the running stream: they end with it.
SdkEndAcquisition(c, s, devfail) ==
    IF devfail \/ ~c[s].streaming THEN Outcome("sdk_error", "EndAcquisition", NoRet, c)
    ELSE Outcome("ok", "EndAcquisition", NoRet,
                 [c EXCEPT ![s].streaming = FALSE, ![s].frame = 0, ![s].unreleased = 0])

\* What a grab can yield: the next frame, the frame after a dropped one, an
\* incomplete image, or no image within the timeout (the SDK raises).
GrabEvents == {"frame", "dropped", "incomplete", "timeout"}

\* _get_image(cam, timestamp_offset, timeout)
get_image_of_cam(c, s, ev) ==
    CASE ev = "timeout" -> Outcome("timeout", "GetNextImage", NoRet, c)
      [] ev = "incomplete" ->
            Outcome("ok", "GetNextImage", EmptyDict,
                    [c EXCEPT ![s].frame = @ + 1, ![s].unreleased = @ + 1])
      [] ev = "dropped" ->
            Outcome("ok", "GetNextImage", ImageDict(c[s].frame + 1),
                    [c EXCEPT ![s].frame = @ + 2, ![s].unreleased = @ + 1])
      [] OTHER ->
            Outcome("ok", "GetNextImage", ImageDict(c[s].frame),
                    [c EXCEPT ![s].frame = @ + 1, ![s].unreleased = @ + 1])

\* image.Release()
ReleaseImage(c, s) == [c EXCEPT ![s].unreleased = IF @ > 0 THEN @ - 1 ELSE 0]

(***************************************************************************)
(* Guards of multi_pyspin.                                                 *)
(***************************************************************************)
\* _validate_serial
validate_serial(reg, s) == IF s \in reg THEN "ok" ELSE "not_connected"

\* cam.IsValid(): the camera object of a registered serial is valid.
IsValid(c, s) == s \in DOMAIN c

\* _validate_cam
validate_cam(c, s) == IF IsValid(c, s) THEN "ok" ELSE "not_valid"

\* _validate_cam_init
validate_cam_init(c, s) ==
    IF validate_cam(c, s) # "ok" THEN validate_cam(c, s)
    ELSE IF ~c[s].init THEN "not_initialized"
    ELSE "ok"

\* _validate_cam_streaming
validate_cam_streaming(c, s) ==
    IF validate_cam_init(c, s) # "ok" THEN validate_cam_init(c, s)
    ELSE IF ~c[s].streaming THEN "not_streaming"
    ELSE "ok"

\* _get_and_validate_cam
get_and_validate_cam(reg, c, s) ==
    IF validate_serial(reg, s) # "ok" THEN validate_serial(reg, s) ELSE validate_cam(c, s)

\* _get_and_validate_init_cam
get_and_validate_init_cam(reg, c, s) ==
    IF validate_serial(reg, s) # "ok" THEN validate_serial(reg, s) ELSE validate_cam_init(c, s)

\* _get_and_validate_streaming_cam
get_and_validate_streaming_cam(reg, c, s) ==
    IF validate_serial(reg, s) # "ok" THEN validate_serial(reg, s) ELSE validate_cam_streaming(c, s)

\* The errors raised by the library's own lifecycle guards.
InvalidStateErrors == {"not_initialized", "not_streaming"}

(***************************************************************************)
(* Public functions of multi_pyspin.                                       *)
(***************************************************************************)
Raised(res, c) == Outcome(res, "none", NoRet, c)

\* init(serial)
init(reg, c, s, devfail) ==
    IF get_and_validate_cam(reg, c, s) # "ok" THEN Raised(get_and_validate_cam(reg, c, s), c)
    ELSE SdkInit(c, s, devfail)

\* Mutant: the device's DeInit is never invoked.
deinit_not_called(reg, c, s, devfail, lenient) ==
    IF get_and_validate_cam(reg, c, s) # "ok" THEN Raised(get_and_validate_cam(reg, c, s), c)
    ELSE Outcome("ok", "none", NoRet, c)

\* deinit(serial)
deinit(reg, c, s, devfail, lenient) ==
    IF get_and_validate_cam(reg, c, s) # "ok" THEN Raised(get_and_validate_cam(reg, c, s), c)
    ELSE SdkDeInit(c, s, devfail, lenient)

\* start_acquisition(serial)
start_acquisition(reg, c, s, devfail) ==
    IF get_and_validate_init_cam(reg, c, s) # "ok"
    THEN Raised(get_and_validate_init_cam(reg, c, s), c)
    ELSE SdkBeginAcquisition(c, s, devfail)

\* Mutant: the device's EndAcquisition is never invoked.
end_acquisition_not_called(reg, c, s, devfail) ==
    IF get_and_validate_init_cam(reg, c, s) # "ok"
    THEN Raised(get_and_validate_init_cam(reg, c, s), c)
    ELSE Outcome("ok", "none", NoRet, c)

\* end_acquisition(serial)
end_acquisition(reg, c, s, devfail) ==
    IF get_and_validate_init_cam(reg, c, s) # "ok"
    THEN Raised(get_and_validate_init_cam(reg, c, s), c)
    ELSE SdkEndAcquisition(c, s, devfail)

\* Mutant: get_image guards with the initialized check only.
get_image_init_guard(reg, c, s, ev) ==
    IF get_and_validate_init_cam(reg, c, s) # "ok"
    THEN Raised(get_and_validate_init_cam(reg, c, s), c)
    ELSE get_image_of_cam(c, s, ev)

\* get_image(serial, timeout)
get_image(reg, c, s, ev) ==
    IF get_and_validate_streaming_cam(reg, c, s) # "ok"
    THEN Raised(get_and_validate_streaming_cam(reg, c, s), c)
    ELSE get_image_of_cam(c, s, ev)

\* node_cmd(serial, node, method, mode, arg): the feature tree is not part of
\* the lifecycle; a device error is the only failure past the guard.
node_cmd(reg, c, s, devfail) ==
    IF get_and_validate_init_cam(reg, c, s) # "ok"
    THEN Raised(get_and_validate_init_cam(reg, c, s), c)
    ELSE IF devfail THEN Outcome("sdk_error", "node", NoRet, c)
    ELSE Outcome("ok", "node", NoRet, c)

\* get_gain, set_gain, get_exposure, set_exposure, get_frame_rate and
\* set_frame_rate: each is node_cmd on a fixed node of the camera.
NodeWrappers ==
    {"get_gain", "set_gain", "get_exposure", "set_exposure", "get_frame_rate", "set_frame_rate"}

\* update_timestamp_offset(serial)
update_timestamp_offset(reg, c, s, devfail) ==
    IF validate_serial(reg, s) # "ok" THEN Raised(validate_serial(reg, s), c)
    ELSE IF get_and_validate_init_cam(reg, c, s) # "ok"
    THEN Raised(get_and_validate_init_cam(reg, c, s), c)
    ELSE IF devfail THEN Outcome("sdk_error", "TimestampLatch", NoRet, c)
    ELSE Outcome("ok", "TimestampLatch", NoRet, [c EXCEPT ![s].offset_current = TRUE])

\* setup(yaml_path): the document names `s`; _setup initializes the camera and
\* applies the init commands (cfgfail: one of them raises).
setup(reg, c, s, cfgfail) ==
    IF get_and_validate_cam(reg, c, s) # "ok" THEN Raised(get_and_validate_cam(reg, c, s), c)
    ELSE IF cfgfail THEN Outcome("config_error", "Init", NoRet, Initialize(c, s))
    ELSE Outcome("ok", "Init", NoRet, Initialize(c, s))

(***************************************************************************)
(* Initial state.  multi: _constructor has treated every attached camera   *)
(* as an arrival (registered and initialized) and the GUI has one empty    *)
(* slot.  stereo, bfs: no camera is bound and none is initialized.         *)
(***************************************************************************)
IdleCap ==
    [pc |-> "idle", cam_nums |-> <<>>, num_images |-> 0, num_bursts |-> 0,
     num_image |-> 0, num_burst |-> 0, idx |-> 0, image_dicts |-> <<>>,
     saved |-> {}, desync |-> FALSE, exc |-> "none", streams |-> <<>>]

NoHist ==
    [result |-> "none", cam_nums |-> <<>>, requested |-> 0, images |-> 0, faults |-> {},
     started |-> <<>>, ended |-> <<>>, exc |-> "none", stopped |-> FALSE]

\* removed: the serials whose removal was handled and that have not arrived
\* again since.
NoLast ==
    [op |-> "none", serial |-> None, pre |-> "none", post |-> "none", res |-> "none",
     devcall |-> "none", removed |-> {}, role |-> "none", kind |-> "none", log |-> {}]

\* Nodes of the camera and their access modes.
Features == {"F", "G"}
Modes == {"RW", "WO", "RO"}

\* _setup / __init_cam is not running.
IdleCfg ==
    [pc |-> "idle", serial |-> None, list |-> <<>>, mode |-> [f \in Features |-> "RW"],
     value |-> [f \in Features |-> "default"], calls |-> <<>>, res |-> "none",
     init |-> "absent"]

\* The estimator has not been called.  n: the iterations asked for; pairs:
\* what datetime.now() (seconds) and TimestampLatchValue (nanoseconds) gave
\* in each iteration; latches: the TimestampLatch.Execute() calls made;
\* offsets: timestamp_offsets, in nanoseconds; res: the value returned, as
\* the fraction num/den of a nanosecond.
IdleEst ==
    [pc |-> "idle", n |-> 0, pairs |-> <<>>, latches |-> 0, offsets |-> <<>>,
     res |-> [num |-> 0, den |-> 1]]

\* No capture is pacing.  Time is counted in ticks of one millisecond.  now:
\* datetime.now() - time_begin; total_delay: the local of that name; begun:
\* for each image whose acquisition was started, the value of now at that
\* moment; warned: the images the delay warning was printed for.
IdlePace ==
    [pc |-> "idle", delay |-> 0, num_images |-> 0, num_image |-> 0, now |-> 0,
     total_delay |-> 0, begun |-> <<>>, warned |-> {}]

\* main() has set up the figure and is about to test fignum_exists.
\* window: the figure exists; queue: _QUEUE, holding the numbers of the
\* callbacks put, numbered in the order of the put calls; kind: what each
\* callback is; running: the callback being executed, 0 for none; order: the
\* callbacks executed so far; depth: how many are being executed; raised,
\* shown: the callbacks that raised, and those a message box was shown for.
IdleGui ==
    [pc |-> "top", window |-> TRUE, queue |-> <<>>, kind |-> <<>>, running |-> 0,
     order |-> <<>>, depth |-> 0, raised |-> {}, shown |-> {}]

\* No preview pass has run.  grabbed: the slots whose camera gave an image
\* buffer in the pass; released: the slots whose buffer the pass released.
IdlePreview == [res |-> "none", grabbed |-> {}, released |-> {}]

\* No call is in flight.  lost: the entry the call validated has been removed
\* since.
IdleCall == [op |-> "none", serial |-> None, pc |-> "idle", lost |-> FALSE, res |-> "none"]

\* _handle_cam_arrival: the camera is initialized as it is registered, and
\* the offset estimated right after is stored in its entry.
handle_cam_arrival(s) ==
    [init |-> TRUE, streaming |-> FALSE, frame |-> 0, unreleased |-> 0, offset_current |-> TRUE]

Detached ==
    [init |-> FALSE, streaming |-> FALSE, frame |-> 0, unreleased |-> 0, offset_current |-> FALSE]

\* The programs of the repository.
Programs == {"multi", "stereo", "bfs"}

\* The two cameras of a stereo rig; the primary one is camera index 0.
Roles == {"primary", "secondary"}
SlotOf(r) == IF r = "primary" THEN 0 ELSE 1

\* stereo_pyspin: no camera found yet; stereo_pyspin_gui: no stream, empty
\* queue, main loop at plt.pause.  cams: the cameras attached to the host.
IdleStereo(cams) ==
    [CAM |-> [r \in Roles |-> None], STREAM |-> [r \in Roles |-> FALSE], QUEUE |-> <<>>,
     pc |-> "pause", cams |-> cams, num_images |-> 0, i |-> 0]

\* stereo_bfs_pyspin: CAM_PRIMARY = CAM_SECONDARY = None, init not called yet.
IdleBfs(cams) ==
    [CAM |-> [r \in Roles |-> None], pc |-> "start", cams |-> cams,
     primary |-> None, secondary |-> None, deinit |-> {}]

Init ==
    /\ program \in Programs
    /\ \E cams \in SUBSET Serials :
           /\ SERIAL_DICT = IF program = "multi" THEN cams ELSE {}
           /\ stereo = IdleStereo(IF program = "stereo" THEN cams ELSE {})
           /\ bfs = IdleBfs(IF program = "bfs" THEN cams ELSE {})
    /\ cam = [s \in Serials |-> IF s \in SERIAL_DICT THEN handle_cam_arrival(s) ELSE Detached]
    /\ last = NoLast
    /\ call = IdleCall
    /\ preview = IdlePreview
    /\ gui = IdleGui
    /\ pace = IdlePace
    /\ est = IdleEst
    /\ conf = IdleCfg
    /\ NUM_CAMS = 1
    /\ SERIALS = [k \in 0..0 |-> None]
    /\ STREAMS = [k \in 0..0 |-> FALSE]
    /\ cap = IdleCap
    /\ hist = NoHist

(***************************************************************************)
(* A client of the library API: any public function, on any serial, in any *)
(* order.  `last` records what the call did.                               *)
(***************************************************************************)
StateOf(c, s) == IF s \in SERIAL_DICT THEN Lifecycle(c, s) ELSE "Gone"

Called(op, s, o) ==
    /\ program = "multi"
    /\ last.op # "destructor"
    /\ cam' = o.cam
    /\ last' = [op |-> op, serial |-> s, pre |-> StateOf(cam, s), post |-> StateOf(o.cam, s),
                res |-> o.res, devcall |-> o.devcall, removed |-> last.removed,
                role |-> "none", kind |-> "none", log |-> {}]
    /\ UNCHANGED <<program, preview, gui, pace, est, conf, call, stereo, bfs, SERIAL_DICT, NUM_CAMS, SERIALS, STREAMS, cap, hist>>

ApiInit(s) == Called("init", s, init(SERIAL_DICT, cam, s, FALSE))

ApiDeinit(s, lenient) == Called("deinit", s, deinit(SERIAL_DICT, cam, s, FALSE, lenient))

ApiStartAcquisition(s) ==
    Called("start_acquisition", s, start_acquisition(SERIAL_DICT, cam, s, FALSE))

ApiEndAcquisition(s) ==
    Called("end_acquisition", s, end_acquisition(SERIAL_DICT, cam, s, FALSE))

ApiGetImage(s, ev) ==
    /\ cam[s].frame < MaxFrameId
    /\ Called("get_image", s, get_image(SERIAL_DICT, cam, s, ev))

ApiNodeCmd(s) == Called("node_cmd", s, node_cmd(SERIAL_DICT, cam, s, FALSE))

ApiNodeWrapper(op, s) == Called(op, s, node_cmd(SERIAL_DICT, cam, s, FALSE))

ApiUpdateTimestampOffset(s) ==
    Called("update_timestamp_offset", s, update_timestamp_offset(SERIAL_DICT, cam, s, FALSE))

ApiSetup(s, cfgfail) == Called("setup", s, setup(SERIAL_DICT, cam, s, cfgfail))

\* The caller releases an image it holds.
ApiRelease(s) ==
    /\ program = "multi"
    /\ last.op # "destructor"
    /\ cam[s].unreleased > 0
    /\ cam' = ReleaseImage(cam, s)
    /\ UNCHANGED <<program, preview, gui, pace, est, conf, call, stereo, bfs, SERIAL_DICT, last, NUM_CAMS, SERIALS, STREAMS, cap, hist>>

\* _handle_cam_arrival(serial) on the registry and on the camera: Init (a
\* no-op on an initialized camera), then the offset is estimated, then the
\* entry of the serial is written, whether or not there was one.
arrival_registry(reg, s) == reg \cup {s}
arrival_cam(c, s) == [Initialize(c, s) EXCEPT ![s].offset_current = TRUE]

\* Mutant: the removal handler keeps the entry.
handle_cam_removal_keeps(reg, s) == reg

\* _handle_cam_removal(serial): _SERIAL_DICT.pop(serial, None)
handle_cam_removal(reg, s) == reg \ {s}

\* _SystemEventHandler.OnDeviceArrival: a camera is plugged in, or the SDK
\* reports again a camera that is attached.
HandleCamArrival(s) ==
    /\ program = "multi"
    /\ last.op # "destructor"
    /\ SERIAL_DICT' = arrival_registry(SERIAL_DICT, s)
    /\ cam' = arrival_cam(cam, s)
    /\ last' = [op |-> "arrival", serial |-> s, pre |-> StateOf(cam, s),
                post |-> Lifecycle(cam', s), res |-> "ok", devcall |-> "Init",
                removed |-> last.removed \ {s}, role |-> "none", kind |-> "none", log |-> {}]
    /\ UNCHANGED <<program, preview, gui, pace, est, conf, call, stereo, bfs, NUM_CAMS, SERIALS, STREAMS, cap, hist>>

\* _SystemEventHandler.OnDeviceRemoval: the camera is unplugged; what is
\* plugged in later under this serial starts as a camera just attached.
HandleCamRemoval(s) ==
    /\ program = "multi"
    /\ last.op # "destructor"
    /\ SERIAL_DICT' = handle_cam_removal(SERIAL_DICT, s)
    /\ cam' = [cam EXCEPT ![s] = Detached]
    /\ last' = [op |-> "removal", serial |-> s, pre |-> StateOf(cam, s),
                post |-> IF s \in SERIAL_DICT' THEN Lifecycle(cam', s) ELSE "Gone",
                res |-> "ok", devcall |-> "none", removed |-> last.removed \cup {s},
                role |-> "none", kind |-> "none", log |-> {}]
    /\ call' = IF call.pc \notin {"idle", "done"} /\ call.serial = s
               THEN [call EXCEPT !.lost = TRUE] ELSE call
    /\ UNCHANGED <<program, preview, gui, pace, est, conf, stereo, bfs, NUM_CAMS, SERIALS, STREAMS, cap, hist>>

(***************************************************************************)
(* The client thread inside update_timestamp_offset or get_image, one      *)
(* registry access at a time, with the SDK's event thread running the      *)
(* hot-plug handlers in between: the module takes no lock.                 *)
(***************************************************************************)
NoCall == call.pc \in {"idle", "done"}

Return(res) == [call EXCEPT !.pc = "done", !.res = res]

RaceFrame ==
    /\ program = "multi"
    /\ UNCHANGED <<program, preview, gui, pace, est, conf, stereo, bfs, SERIAL_DICT, last, NUM_CAMS, SERIALS, STREAMS, cap, hist>>

\* update_timestamp_offset, line 403: _validate_serial(serial)
UtoValidate(s) ==
    /\ RaceFrame
    /\ NoCall
    /\ call' = IF validate_serial(SERIAL_DICT, s) # "ok"
               THEN [IdleCall EXCEPT !.op = "update_timestamp_offset", !.serial = s,
                                     !.pc = "done", !.res = validate_serial(SERIAL_DICT, s)]
               ELSE [IdleCall EXCEPT !.op = "update_timestamp_offset", !.serial = s,
                                     !.pc = "validated", !.res = "pending"]
    /\ UNCHANGED cam

\* lines 405-406, right-hand side: _get_and_validate_init_cam(serial), then
\* _compute_timestamp_offset on the camera it returned.
UtoCompute ==
    /\ RaceFrame
    /\ call.op = "update_timestamp_offset" /\ call.pc = "validated"
    /\ call' = IF get_and_validate_init_cam(SERIAL_DICT, cam, call.serial) # "ok"
               THEN Return(get_and_validate_init_cam(SERIAL_DICT, cam, call.serial))
               ELSE [call EXCEPT !.pc = "computed"]
    /\ UNCHANGED cam

\* line 405, left-hand side: _SERIAL_DICT[serial]['timestamp_offset'] = ...
\* The subscript raises KeyError when the serial is no longer a key, and
\* otherwise writes into whatever entry the serial has now.
UtoStore ==
    /\ RaceFrame
    /\ call.op = "update_timestamp_offset" /\ call.pc = "computed"
    /\ IF call.serial \in SERIAL_DICT
       THEN /\ cam' = [cam EXCEPT ![call.serial].offset_current = TRUE]
            /\ call' = Return("ok")
       ELSE /\ call' = Return("KeyError")
            /\ UNCHANGED cam

\* get_image, line 379: _get_and_validate_streaming_cam(serial)
GiGetCam(s) ==
    /\ RaceFrame
    /\ NoCall
    /\ call' = IF get_and_validate_streaming_cam(SERIAL_DICT, cam, s) # "ok"
               THEN [IdleCall EXCEPT !.op = "get_image", !.serial = s, !.pc = "done",
                                     !.res = get_and_validate_streaming_cam(SERIAL_DICT, cam, s)]
               ELSE [IdleCall EXCEPT !.op = "get_image", !.serial = s, !.pc = "have_cam",
                                     !.res = "pending"]
    /\ UNCHANGED cam

\* get_image, line 380: _get_timestamp_offset, its _validate_serial(serial)
GiOffsetValidate ==
    /\ RaceFrame
    /\ call.op = "get_image" /\ call.pc = "have_cam"
    /\ call' = IF validate_serial(SERIAL_DICT, call.serial) # "ok"
               THEN Return(validate_serial(SERIAL_DICT, call.serial))
               ELSE [call EXCEPT !.pc = "offset_validated"]
    /\ UNCHANGED cam

\* _get_timestamp_offset, its _SERIAL_DICT[serial]['timestamp_offset']
GiOffsetIndex ==
    /\ RaceFrame
    /\ call.op = "get_image" /\ call.pc = "offset_validated"
    /\ call' = IF call.serial \in SERIAL_DICT
               THEN [call EXCEPT !.pc = "have_offset"]
               ELSE Return("KeyError")
    /\ UNCHANGED cam

\* get_image, line 379: _get_image on the handle of line 379.  The handle of
\* a camera that has been unplugged since yields an SDK error.
GiGrab(ev) ==
    /\ RaceFrame
    /\ call.op = "get_image" /\ call.pc = "have_offset"
    /\ cam[call.serial].frame < MaxFrameId
    /\ IF call.lost
       THEN /\ call' = Return("sdk_error")
            /\ UNCHANGED cam
       ELSE /\ cam' = get_image_of_cam(cam, call.serial, ev).cam
            /\ call' = Return(get_image_of_cam(cam, call.serial, ev).res)

NextRace ==
    \/ \E s \in Serials : UtoValidate(s)
    \/ UtoCompute
    \/ UtoStore
    \/ \E s \in Serials : GiGetCam(s)
    \/ GiOffsetValidate
    \/ GiOffsetIndex
    \/ \E ev \in GrabEvents : GiGrab(ev)
    \/ \E s \in Serials : NoCall /\ ApiStartAcquisition(s)
    \/ \E s \in Serials : NoCall /\ ApiEndAcquisition(s)
    \/ \E s \in Serials : NoCall /\ ApiRelease(s)
    \/ \E s \in Serials : HandleCamArrival(s)
    \/ \E s \in Serials : HandleCamRemoval(s)

SpecRace == Init /\ [][NextRace]_vars

(***************************************************************************)
(* multi_pyspin_gui: helpers.  Each returns [res, STREAMS, cam].           *)
(***************************************************************************)
Slots(n) == 0..(n - 1)

GuiResult(res, streams, c) == [res |-> res, STREAMS |-> streams, cam |-> c]

\* _get_and_validate_serial(cam_num)
get_and_validate_serial(ser, k) == IF ser[k] = None THEN "not_setup" ELSE "ok"

\* _start_stream(cam_num)
start_stream(reg, c, ser, streams, k) ==
    IF streams[k] THEN GuiResult("ok", streams, c)
    ELSE IF get_and_validate_serial(ser, k) # "ok"
    THEN GuiResult(get_and_validate_serial(ser, k), streams, c)
    ELSE IF node_cmd(reg, c, ser[k], FALSE).res # "ok"
    THEN GuiResult(node_cmd(reg, c, ser[k], FALSE).res, streams, c)
    ELSE LET o == start_acquisition(reg, c, ser[k], FALSE)
         IN  IF o.res # "ok" THEN GuiResult(o.res, streams, o.cam)
             ELSE GuiResult("ok", [streams EXCEPT ![k] = TRUE], o.cam)

\* _stop_stream(cam_num): the flag is cleared before acquisition is ended.
stop_stream(reg, c, ser, streams, k) ==
    IF ~streams[k] THEN GuiResult("ok", streams, c)
    ELSE IF get_and_validate_serial(ser, k) # "ok"
    THEN GuiResult(get_and_validate_serial(ser, k), [streams EXCEPT ![k] = FALSE], c)
    ELSE LET o == end_acquisition(reg, c, ser[k], FALSE)
         IN  GuiResult(o.res, [streams EXCEPT ![k] = FALSE], o.cam)

\* _stop_streams(): for cam_num in range(_NUM_CAMS), from slot k on; the
\* first exception ends the loop.
RECURSIVE stop_streams(_, _, _, _, _, _)
stop_streams(reg, c, ser, streams, n, k) ==
    IF k >= n THEN GuiResult("ok", streams, c)
    ELSE LET g == stop_stream(reg, c, ser, streams, k)
         IN  IF g.res # "ok" THEN g
             ELSE stop_streams(reg, g.cam, ser, g.STREAMS, n, k + 1)

\* The restart loop at the end of _save_images: _start_stream for every
\* captured slot whose cached stream flag is set, from position i on.
RECURSIVE restart_streams(_, _, _, _, _, _, _)
restart_streams(reg, c, ser, streams, cached, cam_nums, i) ==
    IF i > Len(cam_nums) THEN GuiResult("ok", streams, c)
    ELSE IF ~cached[cam_nums[i]]
    THEN restart_streams(reg, c, ser, streams, cached, cam_nums, i + 1)
    ELSE LET g == start_stream(reg, c, ser, streams, cam_nums[i])
         IN  IF g.res # "ok" THEN g
             ELSE restart_streams(reg, g.cam, ser, g.STREAMS, cached, cam_nums, i + 1)

\* The loops of _save_images before the first image: every captured slot must
\* be set up and its camera initialized (node_cmd, update_timestamp_offset),
\* and the burst count must be at least 1.
RECURSIVE configure_cams(_, _, _, _, _, _)
configure_cams(reg, c, ser, cam_nums, num_bursts, i) ==
    IF i > Len(cam_nums) THEN "ok"
    ELSE IF get_and_validate_serial(ser, cam_nums[i]) # "ok"
    THEN get_and_validate_serial(ser, cam_nums[i])
    ELSE IF node_cmd(reg, c, ser[cam_nums[i]], FALSE).res # "ok"
    THEN node_cmd(reg, c, ser[cam_nums[i]], FALSE).res
    ELSE configure_cams(reg, c, ser, cam_nums, num_bursts, i + 1)

\* _save_single_image_wrapped(cam_num)
SingleCamNums(k) == <<k>>

\* Mutant: the slots in their natural order, the primary camera first.
MultiCamNums_primary_first(n) == [i \in 1..n |-> i - 1]

\* _save_multi_image_wrapped(): the primary camera (slot 0) comes last.
MultiCamNums(n) == [i \in 1..n |-> IF i < n THEN i ELSE 0]

(***************************************************************************)
(* multi_pyspin_gui: the callbacks that run between captures.              *)
(***************************************************************************)
\* The body of _num_cams_wrapped for the number n read from the text field:
\* what it returns or raises, and the globals it leaves.
num_cams(reg, c, ser, streams, num, n) ==
    IF n < 1
    THEN [res |-> "invalid_number", cam |-> c, NUM_CAMS |-> num, SERIALS |-> ser,
          STREAMS |-> streams]
    ELSE LET g == stop_streams(reg, c, ser, streams, num, 0)
         IN  IF g.res # "ok"
             THEN [res |-> g.res, cam |-> g.cam, NUM_CAMS |-> num, SERIALS |-> ser,
                   STREAMS |-> g.STREAMS]
             ELSE [res |-> "ok", cam |-> g.cam, NUM_CAMS |-> n,
                   SERIALS |-> [k \in Slots(n) |-> None],
                   STREAMS |-> [k \in Slots(n) |-> FALSE]]

\* _num_cams_wrapped
NumCamsWrapped(n) ==
    /\ program = "multi"
    /\ cap.pc = "idle"
    /\ hist' = NoHist
    /\ LET r == num_cams(SERIAL_DICT, cam, SERIALS, STREAMS, NUM_CAMS, n)
       IN  /\ cam' = r.cam
           /\ NUM_CAMS' = r.NUM_CAMS
           /\ SERIALS' = r.SERIALS
           /\ STREAMS' = r.STREAMS
    /\ UNCHANGED <<program, preview, gui, pace, est, conf, call, stereo, bfs, SERIAL_DICT, last, cap>>

\* _setup_wrapped(cam_num_new): the serial is stored last, after the camera
\* has been set up and read.
SetupWrapped(k, s, cfgfail) ==
    /\ program = "multi"
    /\ cap.pc = "idle"
    /\ hist' = NoHist
    /\ LET o == setup(SERIAL_DICT, cam, s, cfgfail)
       IN  /\ cam' = o.cam
           /\ SERIALS' = IF o.res = "ok" THEN [SERIALS EXCEPT ![k] = s] ELSE SERIALS
    /\ UNCHANGED <<program, preview, gui, pace, est, conf, call, stereo, bfs, SERIAL_DICT, last, NUM_CAMS, STREAMS, cap>>

\* _start_stream_wrapped(cam_num)
StartStreamWrapped(k) ==
    /\ program = "multi"
    /\ cap.pc = "idle"
    /\ hist' = NoHist
    /\ LET g == start_stream(SERIAL_DICT, cam, SERIALS, STREAMS, k)
       IN  cam' = g.cam /\ STREAMS' = g.STREAMS
    /\ UNCHANGED <<program, preview, gui, pace, est, conf, call, stereo, bfs, SERIAL_DICT, last, NUM_CAMS, SERIALS, cap>>

\* _stop_stream_wrapped(cam_num)
StopStreamWrapped(k) ==
    /\ program = "multi"
    /\ cap.pc = "idle"
    /\ hist' = NoHist
    /\ LET g == stop_stream(SERIAL_DICT, cam, SERIALS, STREAMS, k)
       IN  cam' = g.cam /\ STREAMS' = g.STREAMS
    /\ UNCHANGED <<program, preview, gui, pace, est, conf, call, stereo, bfs, SERIAL_DICT, last, NUM_CAMS, SERIALS, cap>>

(***************************************************************************)
(* multi_pyspin_gui._save_images(cam_nums), one step per library call of   *)
(* the start, grab and end loops.                                          *)
(***************************************************************************)
\* image_dicts = [{} for _ in range(_NUM_CAMS)]
FreshDicts(n) == [k \in Slots(n) |-> EmptyDict]

\* frameids = [image_dicts[cam_num]['frameid'] for cam_num in cam_nums]
\* raises KeyError when one of the dicts is empty.
has_frameids(image_dicts, cam_nums) ==
    \A i \in 1..Len(cam_nums) : image_dicts[cam_nums[i]].complete

\* Mutant: one matching frame id is enough.
frameids_match_any(image_dicts, cam_nums, num_burst) ==
    \E i \in 1..Len(cam_nums) : image_dicts[cam_nums[i]].frameid = num_burst

\* frameids.count(num_burst) == len(frameids)
frameids_match(image_dicts, cam_nums, num_burst) ==
    \A i \in 1..Len(cam_nums) : image_dicts[cam_nums[i]].frameid = num_burst

\* Mutant: a mismatch raises instead of leaving the burst loop.
check_frameids_raise(image_dicts, cam_nums, num_burst) ==
    IF ~has_frameids(image_dicts, cam_nums) THEN "KeyError"
    ELSE IF ~frameids_match(image_dicts, cam_nums, num_burst) THEN "DesyncError"
    ELSE "save"

\* The check of one slot: the exception it raises, "break" (warning, the
\* rest of the bursts is skipped) or "save".
check_frameids(image_dicts, cam_nums, num_burst) ==
    IF ~has_frameids(image_dicts, cam_nums) THEN "KeyError"
    ELSE IF ~frameids_match(image_dicts, cam_nums, num_burst) THEN "break"
    ELSE "save"

\* The slot is desynchronized: every camera delivered a frame and some frame
\* id is not the burst index.
Desynced(image_dicts, cam_nums, num_burst) ==
    /\ \A i \in 1..Len(cam_nums) : image_dicts[cam_nums[i]].complete
    /\ \E i \in 1..Len(cam_nums) : image_dicts[cam_nums[i]].frameid # num_burst

\* The release loop: image_dicts[cam_num]['image'].Release() for every slot.
RECURSIVE release_images(_, _, _, _)
release_images(c, ser, cam_nums, i) ==
    IF i > Len(cam_nums) THEN c
    ELSE release_images(ReleaseImage(c, ser[cam_nums[i]]), ser, cam_nums, i + 1)

\* The capture call returns or raises: its locals are gone.
Exit(result, fault, c, streams) ==
    /\ cam' = c
    /\ STREAMS' = streams
    /\ cap' = IdleCap
    /\ hist' = [hist EXCEPT !.result = result,
                            !.faults = IF fault = "none" THEN @ ELSE @ \cup {fault}]

\* Entry of _save_images up to the image loop.
SaveImages(cam_nums, num_images, num_bursts) ==
    /\ program = "multi"
    /\ cap.pc = "idle"
    /\ LET g == stop_streams(SERIAL_DICT, cam, SERIALS, STREAMS, NUM_CAMS, 0)
           cfg == configure_cams(SERIAL_DICT, g.cam, SERIALS, cam_nums, num_bursts, 1)
           begun == [NoHist EXCEPT !.cam_nums = cam_nums, !.requested = num_images]
       IN  IF g.res # "ok" \/ cfg # "ok" \/ num_bursts < 1
           THEN /\ cam' = g.cam
                /\ STREAMS' = g.STREAMS
                /\ cap' = IdleCap
                /\ hist' = [begun EXCEPT !.result = "error", !.faults = {"setup"}]
           ELSE IF num_images = 0
           THEN LET r == restart_streams(SERIAL_DICT, g.cam, SERIALS, g.STREAMS, STREAMS, cam_nums, 1)
                IN  /\ cam' = r.cam
                    /\ STREAMS' = r.STREAMS
                    /\ cap' = IdleCap
                    /\ hist' = [begun EXCEPT !.result = IF r.res = "ok" THEN "ok" ELSE "error"]
           ELSE /\ cam' = g.cam
                /\ STREAMS' = g.STREAMS
                /\ cap' = [IdleCap EXCEPT !.pc = "start", !.cam_nums = cam_nums,
                                          !.num_images = num_images, !.num_bursts = num_bursts,
                                          !.idx = 1, !.image_dicts = FreshDicts(NUM_CAMS),
                                          !.streams = STREAMS]
                /\ hist' = begun
    /\ UNCHANGED <<program, preview, gui, pace, est, conf, call, stereo, bfs, SERIAL_DICT, last, NUM_CAMS, SERIALS>>

\* "Start acquisition" loop, one camera per step; it is outside the try.
CapStart(devfail) ==
    /\ program = "multi"
    /\ cap.pc = "start"
    /\ LET k == cap.cam_nums[cap.idx]
           o == start_acquisition(SERIAL_DICT, cam, SERIALS[k], devfail)
       IN  IF get_and_validate_serial(SERIALS, k) # "ok"
           THEN Exit("error", "start", cam, STREAMS)
           ELSE IF o.res # "ok"
           THEN Exit("error", "start", o.cam, STREAMS)
           ELSE /\ cam' = o.cam
                /\ hist' = [hist EXCEPT !.started = Append(@, k)]
                /\ cap' = IF cap.idx < Len(cap.cam_nums)
                          THEN [cap EXCEPT !.idx = @ + 1]
                          ELSE [cap EXCEPT !.pc = "grab", !.idx = 1, !.num_burst = 0,
                                           !.image_dicts = FreshDicts(NUM_CAMS), !.saved = {},
                                           !.desync = FALSE]
                /\ UNCHANGED STREAMS
    /\ UNCHANGED <<program, preview, gui, pace, est, conf, call, stereo, bfs, SERIAL_DICT, last, NUM_CAMS, SERIALS>>

\* "Get images" loop, one camera per step; an exception leaves the try body.
CapGrab(ev) ==
    /\ program = "multi"
    /\ cap.pc = "grab"
    /\ LET k == cap.cam_nums[cap.idx]
           o == get_image(SERIAL_DICT, cam, SERIALS[k], ev)
       IN  IF get_and_validate_serial(SERIALS, k) # "ok"
           THEN /\ cap' = [cap EXCEPT !.pc = "end", !.idx = 1, !.exc = "not_setup"]
                /\ hist' = [hist EXCEPT !.faults = @ \cup {"not_setup"}, !.exc = "not_setup"]
                /\ UNCHANGED cam
           ELSE IF o.res # "ok"
           THEN /\ cam' = o.cam
                /\ cap' = [cap EXCEPT !.pc = "end", !.idx = 1, !.exc = o.res]
                /\ hist' = [hist EXCEPT !.faults = @ \cup {o.res}, !.exc = o.res]
           ELSE /\ cam' = o.cam
                /\ cap' = [cap EXCEPT !.image_dicts[k] = o.ret,
                                      !.pc = IF cap.idx < Len(cap.cam_nums) THEN "grab" ELSE "check",
                                      !.idx = IF cap.idx < Len(cap.cam_nums) THEN @ + 1 ELSE 1]
                /\ hist' = [hist EXCEPT !.faults = IF o.ret.complete THEN @ ELSE @ \cup {"incomplete"}]
    /\ UNCHANGED <<program, preview, gui, pace, est, conf, call, stereo, bfs, SERIAL_DICT, last, NUM_CAMS, SERIALS, STREAMS>>

\* The frame id check of the slot.
CapCheck ==
    /\ program = "multi"
    /\ cap.pc = "check"
    /\ LET v == check_frameids(cap.image_dicts, cap.cam_nums, cap.num_burst)
           d == Desynced(cap.image_dicts, cap.cam_nums, cap.num_burst)
           seen == [hist EXCEPT !.faults = IF d THEN @ \cup {"mismatch"} ELSE @]
       IN  IF v = "save"
           THEN /\ cap' = [cap EXCEPT !.pc = "save", !.idx = 1, !.desync = d]
                /\ hist' = seen
           ELSE IF v = "break"
           THEN /\ cap' = [cap EXCEPT !.pc = "end", !.idx = 1, !.desync = d]
                /\ hist' = seen
           ELSE /\ cap' = [cap EXCEPT !.pc = "end", !.idx = 1, !.desync = d, !.exc = v]
                /\ hist' = [seen EXCEPT !.exc = v]
    /\ UNCHANGED <<program, preview, gui, pace, est, conf, call, stereo, bfs, SERIAL_DICT, cam, last, NUM_CAMS, SERIALS, STREAMS>>

\* "Save images" loop; failAt = j > 0: writing the j-th file raises.
CapSave(failAt) ==
    /\ program = "multi"
    /\ cap.pc = "save"
    /\ failAt \in 0..Len(cap.cam_nums)
    /\ LET upto == IF failAt = 0 THEN Len(cap.cam_nums) ELSE failAt - 1
           written == {cap.cam_nums[i] : i \in {j \in 1..upto : cap.image_dicts[cap.cam_nums[j]].complete}}
       IN  IF failAt = 0
           THEN /\ cap' = [cap EXCEPT !.pc = "release", !.saved = written]
                /\ UNCHANGED hist
           ELSE /\ cap' = [cap EXCEPT !.pc = "end", !.idx = 1, !.saved = written, !.exc = "save_error"]
                /\ hist' = [hist EXCEPT !.faults = @ \cup {"save"}, !.exc = "save_error"]
    /\ UNCHANGED <<program, preview, gui, pace, est, conf, call, stereo, bfs, SERIAL_DICT, cam, last, NUM_CAMS, SERIALS, STREAMS>>

\* "Release image buffers" loop, then the next burst or the end of the try body.
CapRelease ==
    /\ program = "multi"
    /\ cap.pc = "release"
    /\ cam' = release_images(cam, SERIALS, cap.cam_nums, 1)
    /\ cap' = IF cap.num_burst + 1 < cap.num_bursts
              THEN [cap EXCEPT !.pc = "grab", !.idx = 1, !.num_burst = @ + 1,
                               !.image_dicts = FreshDicts(NUM_CAMS), !.saved = {}]
              ELSE [cap EXCEPT !.pc = "end", !.idx = 1]
    /\ UNCHANGED <<program, preview, gui, pace, est, conf, call, stereo, bfs, SERIAL_DICT, last, NUM_CAMS, SERIALS, STREAMS, hist>>

\* The finally block: "End acquisition" loop, one camera per step.  An
\* exception of end_acquisition leaves the loop; after the last camera a
\* pending exception of the try body propagates.
CapEnd(devfail) ==
    /\ program = "multi"
    /\ cap.pc = "end"
    /\ LET k == cap.cam_nums[cap.idx]
           o == end_acquisition(SERIAL_DICT, cam, SERIALS[k], devfail)
           invoked == [hist EXCEPT !.ended = Append(@, k)]
       IN  IF get_and_validate_serial(SERIALS, k) # "ok"
           THEN Exit("error", "end", cam, STREAMS)
           ELSE IF o.res # "ok"
           THEN /\ cam' = o.cam
                /\ cap' = IdleCap
                /\ hist' = [invoked EXCEPT !.result = "error", !.faults = @ \cup {"end"}]
                /\ UNCHANGED STREAMS
           ELSE IF cap.idx < Len(cap.cam_nums)
           THEN /\ cam' = o.cam
                /\ cap' = [cap EXCEPT !.idx = @ + 1]
                /\ hist' = invoked
                /\ UNCHANGED STREAMS
           ELSE IF cap.exc # "none"
           THEN /\ cam' = o.cam
                /\ cap' = IdleCap
                /\ hist' = [invoked EXCEPT !.result = "error"]
                /\ UNCHANGED STREAMS
           ELSE /\ cam' = o.cam
                /\ cap' = [cap EXCEPT !.pc = "next", !.idx = 1]
                /\ hist' = invoked
                /\ UNCHANGED STREAMS
    /\ UNCHANGED <<program, preview, gui, pace, est, conf, call, stereo, bfs, SERIAL_DICT, last, NUM_CAMS, SERIALS>>

\* Mutant: a cleared image-count field does not end the loop.
last_image_by_count(stop, num_image, num_images) == num_image + 1 >= num_images

\* The image loop is left: by the break, or because range(num_images) is
\* exhausted.
last_image(stop, num_image, num_images) == stop \/ num_image + 1 >= num_images

\* End of one image: the counter is advanced and the stop request (the
\* image-count field was cleared) is read; after the last image the cached
\* streams are restarted.
CapNext(stop) ==
    /\ program = "multi"
    /\ cap.pc = "next"
    /\ IF last_image(stop, cap.num_image, cap.num_images)
       THEN LET r == restart_streams(SERIAL_DICT, cam, SERIALS, STREAMS, cap.streams, cap.cam_nums, 1)
            IN  /\ cam' = r.cam
                /\ STREAMS' = r.STREAMS
                /\ cap' = IdleCap
                /\ hist' = [hist EXCEPT !.images = @ + 1, !.stopped = stop,
                                        !.result = IF r.res = "ok" THEN "ok" ELSE "error"]
       ELSE /\ cap' = [cap EXCEPT !.pc = "start", !.idx = 1, !.num_image = @ + 1, !.desync = FALSE]
            /\ hist' = [hist EXCEPT !.images = @ + 1, !.stopped = stop,
                                    !.started = <<>>, !.ended = <<>>]
            /\ UNCHANGED <<cam, STREAMS>>
    /\ UNCHANGED <<program, preview, gui, pace, est, conf, call, stereo, bfs, SERIAL_DICT, last, NUM_CAMS, SERIALS>>

(***************************************************************************)
(* stereo_pyspin.  b is the camera bound to a role (__CAM_PRIMARY or       *)
(* __CAM_SECONDARY): a serial, or None when no camera has been found.      *)
(***************************************************************************)
\* __get_cam_primary / __get_cam_secondary
stereo_get_cam(b) == IF b = None THEN "not_found" ELSE "ok"

\* __get_and_validate_init_cam_primary / _secondary
stereo_get_and_validate_init_cam(c, b) ==
    IF stereo_get_cam(b) # "ok" THEN stereo_get_cam(b) ELSE validate_cam_init(c, b)

\* __get_and_validate_streaming_cam_primary / _secondary
stereo_get_and_validate_streaming_cam(c, b) ==
    IF stereo_get_cam(b) # "ok" THEN stereo_get_cam(b) ELSE validate_cam_streaming(c, b)

\* primary_node_cmd / secondary_node_cmd
stereo_node_cmd(c, b, devfail) ==
    IF stereo_get_and_validate_init_cam(c, b) # "ok"
    THEN Raised(stereo_get_and_validate_init_cam(c, b), c)
    ELSE IF devfail THEN Outcome("sdk_error", "node", NoRet, c)
    ELSE Outcome("ok", "node", NoRet, c)

\* start_acquisition_primary / start_acquisition_secondary
stereo_start_acquisition(c, b, devfail) ==
    IF stereo_get_and_validate_init_cam(c, b) # "ok"
    THEN Raised(stereo_get_and_validate_init_cam(c, b), c)
    ELSE SdkBeginAcquisition(c, b, devfail)

\* end_acquisition_primary / end_acquisition_secondary
stereo_end_acquisition(c, b, devfail) ==
    IF stereo_get_and_validate_streaming_cam(c, b) # "ok"
    THEN Raised(stereo_get_and_validate_streaming_cam(c, b), c)
    ELSE SdkEndAcquisition(c, b, devfail)

\* deinit_primary / deinit_secondary
stereo_deinit(c, b, devfail, lenient) ==
    IF stereo_get_and_validate_init_cam(c, b) # "ok"
    THEN Raised(stereo_get_and_validate_init_cam(c, b), c)
    ELSE SdkDeInit(c, b, devfail, lenient)

\* What a grab without a timeout can yield.
StereoGrabEvents == {"frame", "incomplete", "error"}

\* get_image_primary / get_image_secondary with __get_image: the image object
\* goes out of scope in __get_image, nothing is left to release, and the
\* dict carries no frame id (data, timestamp, bitsperpixel).
stereo_get_image(c, b, ev) ==
    IF stereo_get_and_validate_streaming_cam(c, b) # "ok"
    THEN Raised(stereo_get_and_validate_streaming_cam(c, b), c)
    ELSE IF ev = "error" THEN Outcome("sdk_error", "GetNextImage", NoRet, c)
    ELSE IF ev = "incomplete" THEN Outcome("ok", "GetNextImage", EmptyDict, c)
    ELSE Outcome("ok", "GetNextImage", ImageDict(0), c)

\* What the user has typed into a "find and init" text box: a serial, the
\* path of a yaml file with that serial, or a path that is no such file.
TextKinds == {"serial", "yaml", "bad_yaml"}
Texts == [kind : TextKinds, serial : Serials]

\* init_primary / init_secondary with __init_cam(cam, yaml_path): the path
\* must be a file, then Init(), then the init commands of the file.
stereo_init(c, b, text, cfgfail) ==
    IF stereo_get_cam(b) # "ok" THEN Raised(stereo_get_cam(b), c)
    ELSE IF text.kind # "yaml" THEN Raised("no_file", c)
    ELSE IF cfgfail THEN Outcome("config_error", "Init", NoRet, Initialize(c, b))
    ELSE Outcome("ok", "Init", NoRet, Initialize(c, b))

\* __cleanup_primary_cam / __cleanup_secondary_cam: end acquisition and
\* de-init, each with its exceptions suppressed; the caller clears the
\* reference.
stereo_cleanup(c, b, lenient) ==
    LET e == stereo_end_acquisition(c, b, FALSE)
    IN  stereo_deinit(e.cam, b, FALSE, lenient).cam

\* Mutant: the camera bound so far is cleaned up before the new one is looked
\* for.
stereo_find_cleanup_first(c, cams, b, text, lenient) ==
    IF text.kind = "bad_yaml" \/ text.serial \notin cams
    THEN [res |-> IF text.kind = "bad_yaml" THEN "bad_yaml" ELSE "not_attached",
          bound |-> None, cam |-> stereo_cleanup(c, b, lenient)]
    ELSE [res |-> "ok", bound |-> text.serial, cam |-> stereo_cleanup(c, b, lenient)]

\* find_primary / find_secondary: __get_serial, __find_cam, then the cleanup
\* of the camera bound so far, then the assignment.  [res, bound, cam]
stereo_find(c, cams, b, text, lenient) ==
    IF text.kind = "bad_yaml" THEN [res |-> "bad_yaml", bound |-> b, cam |-> c]
    ELSE IF text.serial \notin cams THEN [res |-> "not_attached", bound |-> b, cam |-> c]
    ELSE [res |-> "ok", bound |-> text.serial, cam |-> stereo_cleanup(c, b, lenient)]

(***************************************************************************)
(* stereo_pyspin_gui.  Every callback is wrapped: calling it puts it into  *)
(* __QUEUE, and the main loop runs the queued callbacks one at a time, an  *)
(* exception of a callback ending in a message box.                        *)
(***************************************************************************)
\* The callbacks of the buttons.
ButtonCallbacks ==
    {[f |-> f, r |-> r] : f \in {"find_and_init", "start_acquisition", "stop_acquisition"},
                          r \in Roles}
        \cup {[f |-> "save_images", r |-> "both"]}

StreamCallback(r) == [f |-> "stream_image", r |-> r]

\* What every step of the stereo GUI leaves alone.
StereoFrame ==
    /\ program = "stereo"
    /\ UNCHANGED <<program, preview, gui, pace, est, conf, call, bfs, SERIAL_DICT, last, NUM_CAMS, SERIALS, STREAMS, cap>>

\* __queue_wrapper: a button pressed while the main loop is in plt.pause.
StereoClick(cb) ==
    /\ StereoFrame
    /\ stereo.pc = "pause"
    /\ Len(stereo.QUEUE) < MaxQueue
    /\ stereo' = [stereo EXCEPT !.QUEUE = Append(@, cb)]
    /\ UNCHANGED <<cam, hist>>

\* main: "Handle streams", the stream callbacks are queued like the others.
StereoHandleStreams ==
    /\ StereoFrame
    /\ stereo.pc = "pause"
    /\ LET p == IF stereo.STREAM["primary"] THEN <<StreamCallback("primary")>> ELSE <<>>
           s == IF stereo.STREAM["secondary"] THEN <<StreamCallback("secondary")>> ELSE <<>>
       IN  stereo' = [stereo EXCEPT !.QUEUE = @ \o p \o s, !.pc = "drain"]
    /\ UNCHANGED <<cam, hist>>

\* main: "Handle queue", the queue is empty: next pass of the loop.
StereoDrained ==
    /\ StereoFrame
    /\ stereo.pc = "drain"
    /\ stereo.QUEUE = <<>>
    /\ stereo' = [stereo EXCEPT !.pc = "pause"]
    /\ UNCHANGED <<cam, hist>>

\* The head of the queue is taken out to be run.
Running(f) ==
    /\ stereo.pc = "drain"
    /\ stereo.QUEUE # <<>>
    /\ Head(stereo.QUEUE).f = f

Popped == [stereo EXCEPT !.QUEUE = Tail(@)]

\* __find_and_init_primary / __find_and_init_secondary
StereoFindAndInit(text, cfgfail, lenient) ==
    /\ StereoFrame
    /\ Running("find_and_init")
    /\ LET r == Head(stereo.QUEUE).r
           f == stereo_find(cam, stereo.cams, stereo.CAM[r], text, lenient)
           o == stereo_init(f.cam, f.bound, text, cfgfail)
       IN  IF f.res # "ok"
           THEN /\ stereo' = Popped
                /\ UNCHANGED cam
           ELSE /\ stereo' = [Popped EXCEPT !.CAM[r] = f.bound]
                /\ cam' = o.cam
    /\ hist' = NoHist

\* __start_acquisition_primary / __start_acquisition_secondary
StereoStartAcquisition ==
    /\ StereoFrame
    /\ Running("start_acquisition")
    /\ LET r == Head(stereo.QUEUE).r
           n == stereo_node_cmd(cam, stereo.CAM[r], FALSE)
           o == stereo_start_acquisition(cam, stereo.CAM[r], FALSE)
       IN  IF stereo.STREAM[r] \/ n.res # "ok"
           THEN /\ stereo' = Popped
                /\ UNCHANGED cam
           ELSE /\ stereo' = [Popped EXCEPT !.STREAM[r] = (o.res = "ok")]
                /\ cam' = o.cam
    /\ hist' = NoHist

\* __stop_acquisition_primary / __stop_acquisition_secondary: the flag is
\* cleared after acquisition has been ended.
StereoStopAcquisition ==
    /\ StereoFrame
    /\ Running("stop_acquisition")
    /\ LET r == Head(stereo.QUEUE).r
           o == stereo_end_acquisition(cam, stereo.CAM[r], FALSE)
       IN  IF ~stereo.STREAM[r]
           THEN /\ stereo' = Popped
                /\ UNCHANGED cam
           ELSE /\ stereo' = [Popped EXCEPT !.STREAM[r] = (o.res # "ok")]
                /\ cam' = o.cam
    /\ hist' = NoHist

\* __stream_image_primary / __stream_image_secondary: the image is plotted.
StereoStreamImage(ev) ==
    /\ StereoFrame
    /\ Running("stream_image")
    /\ cam' = stereo_get_image(cam, stereo.CAM[Head(stereo.QUEUE).r], ev).cam
    /\ stereo' = Popped
    /\ hist' = NoHist

(***************************************************************************)
(* stereo_pyspin_gui.__save_images, one step per start, grab and end of an *)
(* image.  There is no try/finally: an exception ends the callback where   *)
(* it is raised.                                                           *)
(***************************************************************************)
\* The callbacks __save_images calls for the streams that are enabled: being
\* wrapped, they are queued, not run.
StreamCalls(f) ==
    (IF stereo.STREAM["primary"] THEN <<[f |-> f, r |-> "primary"]>> ELSE <<>>)
        \o (IF stereo.STREAM["secondary"] THEN <<[f |-> f, r |-> "secondary"]>> ELSE <<>>)

\* The callback raises: the message box is shown and the main loop goes on.
StereoRaise(fault, c) ==
    /\ cam' = c
    /\ stereo' = [stereo EXCEPT !.pc = "drain", !.num_images = 0, !.i = 0]
    /\ hist' = [hist EXCEPT !.result = "error", !.faults = @ \cup {fault}]

\* Entry of __save_images up to the image loop.
StereoSaveImages(num_images) ==
    /\ StereoFrame
    /\ Running("save_images")
    /\ LET begun == [NoHist EXCEPT !.cam_nums = <<SlotOf("secondary"), SlotOf("primary")>>,
                                   !.requested = num_images]
           stops == [Popped EXCEPT !.QUEUE = @ \o StreamCalls("stop_acquisition")]
       IN  IF num_images = 0
           THEN /\ stereo' = [stops EXCEPT !.QUEUE = @ \o StreamCalls("start_acquisition")]
                /\ hist' = [begun EXCEPT !.result = "ok"]
           ELSE /\ stereo' = [stops EXCEPT !.pc = "save_start_secondary",
                                           !.num_images = num_images, !.i = 0]
                /\ hist' = begun
    /\ UNCHANGED cam

\* The node commands of an image, then start_acquisition_secondary.
StereoSaveStartSecondary ==
    /\ StereoFrame
    /\ stereo.pc = "save_start_secondary"
    /\ LET np == stereo_node_cmd(cam, stereo.CAM["primary"], FALSE)
           ns == stereo_node_cmd(cam, stereo.CAM["secondary"], FALSE)
           o == stereo_start_acquisition(cam, stereo.CAM["secondary"], FALSE)
       IN  IF np.res # "ok" \/ ns.res # "ok" THEN StereoRaise("setup", cam)
           ELSE IF o.res # "ok" THEN StereoRaise("start", o.cam)
           ELSE /\ cam' = o.cam
                /\ stereo' = [stereo EXCEPT !.pc = "save_start_primary"]
                /\ hist' = [hist EXCEPT !.started = Append(@, SlotOf("secondary"))]

\* start_acquisition_primary
StereoSaveStartPrimary ==
    /\ StereoFrame
    /\ stereo.pc = "save_start_primary"
    /\ LET o == stereo_start_acquisition(cam, stereo.CAM["primary"], FALSE)
       IN  IF o.res # "ok" THEN StereoRaise("start", o.cam)
           ELSE /\ cam' = o.cam
                /\ stereo' = [stereo EXCEPT !.pc = "save_grab"]
                /\ hist' = [hist EXCEPT !.started = Append(@, SlotOf("primary"))]

\* get_image_primary, get_image_secondary, then the two files are written:
\* reading 'timestamp' of the dict of an incomplete image raises KeyError.
StereoSaveGrab(evp, evs, savefail) ==
    /\ StereoFrame
    /\ stereo.pc = "save_grab"
    /\ LET p == stereo_get_image(cam, stereo.CAM["primary"], evp)
           s == stereo_get_image(p.cam, stereo.CAM["secondary"], evs)
       IN  IF p.res # "ok" THEN StereoRaise("grab", p.cam)
           ELSE IF s.res # "ok" THEN StereoRaise("grab", s.cam)
           ELSE IF ~p.ret.complete \/ ~s.ret.complete THEN StereoRaise("incomplete", s.cam)
           ELSE IF savefail THEN StereoRaise("save", s.cam)
           ELSE /\ cam' = s.cam
                /\ stereo' = [stereo EXCEPT !.pc = "save_end"]
                /\ UNCHANGED hist

\* end_acquisition_primary, end_acquisition_secondary; after the last image
\* the counter is set and the enabled streams are started again.
StereoSaveEnd ==
    /\ StereoFrame
    /\ stereo.pc = "save_end"
    /\ LET p == stereo_end_acquisition(cam, stereo.CAM["primary"], FALSE)
           s == stereo_end_acquisition(p.cam, stereo.CAM["secondary"], FALSE)
           ended == [hist EXCEPT !.ended = <<SlotOf("primary"), SlotOf("secondary")>>,
                                 !.images = @ + 1]
       IN  IF p.res # "ok" THEN StereoRaise("end", p.cam)
           ELSE IF s.res # "ok" THEN StereoRaise("end", s.cam)
           ELSE IF stereo.i + 1 < stereo.num_images
           THEN /\ cam' = s.cam
                /\ stereo' = [stereo EXCEPT !.pc = "save_start_secondary", !.i = @ + 1]
                /\ hist' = [ended EXCEPT !.started = <<>>, !.ended = <<>>]
           ELSE /\ cam' = s.cam
                /\ stereo' = [stereo EXCEPT !.pc = "drain", !.num_images = 0, !.i = 0,
                                            !.QUEUE = @ \o StreamCalls("start_acquisition")]
                /\ hist' = [ended EXCEPT !.result = "ok"]

(***************************************************************************)
(* stereo_bfs_pyspin: init(cam_serial_primary, cam_serial_secondary) and   *)
(* the deinit registered with atexit.                                      *)
(***************************************************************************)
\* A command of a command list: the camera method it ends in and its argument
\* (cmd[1]): None, a string or the boolean True.
Cmd(method, arg) == [method |-> method, arg |-> arg]

\* The command list of __init_secondary.
InitSecondaryCmds ==
    <<Cmd("Init", "None"), Cmd("SetValue", "str"), Cmd("Execute", "None"),
      Cmd("SetValue", "str"), Cmd("SetValue", "str"), Cmd("SetValue", "str"),
      Cmd("SetValue", "str"), Cmd("SetValue", "str"), Cmd("SetValue", "str"),
      Cmd("BeginAcquisition", "None")>>

\* The command list of __init_primary: V3_3Enable.SetValue has the argument True.
InitPrimaryCmds ==
    <<Cmd("Init", "None"), Cmd("SetValue", "str"), Cmd("Execute", "None"),
      Cmd("SetValue", "str"), Cmd("SetValue", "bool"), Cmd("SetValue", "str"),
      Cmd("SetValue", "str"), Cmd("BeginAcquisition", "None")>>

\* The command list of __deinit_secondary and of __deinit_primary.
DeinitCmds ==
    <<Cmd("EndAcquisition", "None"), Cmd("SetValue", "str"), Cmd("Execute", "None"),
      Cmd("DeInit", "None")>>

\* __cam_exec_cmd(cam, cmd): the info string is built by concatenating cmd[1]
\* to a string, which raises TypeError for an argument that is not a string.
cam_exec_cmd(c, s, cmd, devfail, lenient) ==
    IF cmd.arg = "bool" THEN Raised("TypeError", c)
    ELSE IF cmd.method = "Init" THEN SdkInit(c, s, devfail)
    ELSE IF cmd.method = "BeginAcquisition" THEN SdkBeginAcquisition(c, s, devfail)
    ELSE IF cmd.method = "EndAcquisition" THEN SdkEndAcquisition(c, s, devfail)
    ELSE IF cmd.method = "DeInit" THEN SdkDeInit(c, s, devfail, lenient)
    ELSE IF devfail \/ ~c[s].init THEN Outcome("sdk_error", "node", NoRet, c)
    ELSE Outcome("ok", "node", NoRet, c)

\* __cam_exec_cmd_list(cam, cmd_list) from command i on; the device fails
\* command failAt (0: none).  The outcome of the first command that raises,
\* or of the last command.
RECURSIVE cam_exec_cmd_list(_, _, _, _, _, _)
cam_exec_cmd_list(c, s, cmd_list, i, failAt, lenient) ==
    LET o == cam_exec_cmd(c, s, cmd_list[i], failAt = i, lenient)
    IN  IF o.res # "ok" \/ i = Len(cmd_list) THEN o
        ELSE cam_exec_cmd_list(o.cam, s, cmd_list, i + 1, failAt, lenient)

\* The loop of init over the two cameras, in the order of the camera list:
\* [res, CAM] after the cameras from position i on.
RECURSIVE bfs_assign(_, _, _, _, _)
bfs_assign(order, i, primary, secondary, bound) ==
    IF i > Len(order) THEN [res |-> "ok", CAM |-> bound]
    ELSE IF order[i] = primary
    THEN bfs_assign(order, i + 1, primary, secondary, [bound EXCEPT !["primary"] = order[i]])
    ELSE IF order[i] = secondary
    THEN bfs_assign(order, i + 1, primary, secondary, [bound EXCEPT !["secondary"] = order[i]])
    ELSE [res |-> "unrecognized", CAM |-> bound]

\* The orders in which the system can list the attached cameras.
CamLists(cams) ==
    {order \in [1..Cardinality(cams) -> cams] :
        \A i, j \in 1..Cardinality(cams) : i # j => order[i] # order[j]}

\* What every step of the client of stereo_bfs_pyspin leaves alone.
BfsFrame ==
    /\ program = "bfs"
    /\ UNCHANGED <<program, preview, gui, pace, est, conf, call, stereo, SERIAL_DICT, last, NUM_CAMS, SERIALS, STREAMS, cap>>

\* An exception leaves init: the client ends, atexit runs deinit.
BfsRaise(bound, c) ==
    /\ bfs' = [bfs EXCEPT !.CAM = bound, !.pc = "exit"]
    /\ cam' = c
    /\ hist' = [hist EXCEPT !.result = "error"]

\* init up to the initialization of the cameras.
BfsInit(primary, secondary, order) ==
    /\ BfsFrame
    /\ bfs.pc = "start"
    /\ order \in CamLists(bfs.cams)
    /\ LET a == bfs_assign(order, 1, primary, secondary, bfs.CAM)
           begun == [NoHist EXCEPT !.cam_nums = <<SlotOf("secondary"), SlotOf("primary")>>]
       IN  IF Cardinality(bfs.cams) # 2
           THEN /\ bfs' = [bfs EXCEPT !.pc = "exit"]
                /\ hist' = [begun EXCEPT !.result = "error"]
           ELSE IF a.res # "ok"
           THEN /\ bfs' = [bfs EXCEPT !.CAM = a.CAM, !.pc = "exit"]
                /\ hist' = [begun EXCEPT !.result = "error"]
           ELSE /\ bfs' = [bfs EXCEPT !.CAM = a.CAM, !.pc = "init_secondary"]
                /\ hist' = begun
    /\ UNCHANGED cam

\* __init_secondary(CAM_SECONDARY)
BfsInitSecondary(failAt) ==
    /\ BfsFrame
    /\ bfs.pc = "init_secondary"
    /\ failAt \in 0..Len(InitSecondaryCmds)
    /\ LET o == cam_exec_cmd_list(cam, bfs.CAM["secondary"], InitSecondaryCmds, 1, failAt, FALSE)
       IN  IF o.res # "ok" THEN BfsRaise(bfs.CAM, o.cam)
           ELSE /\ bfs' = [bfs EXCEPT !.pc = "init_primary"]
                /\ cam' = o.cam
                /\ hist' = [hist EXCEPT !.started = Append(@, SlotOf("secondary"))]

\* __init_primary(CAM_PRIMARY); when init has returned the client uses the
\* cameras and ends.
BfsInitPrimary(failAt) ==
    /\ BfsFrame
    /\ bfs.pc = "init_primary"
    /\ failAt \in 0..Len(InitPrimaryCmds)
    /\ LET o == cam_exec_cmd_list(cam, bfs.CAM["primary"], InitPrimaryCmds, 1, failAt, FALSE)
       IN  IF o.res # "ok" THEN BfsRaise(bfs.CAM, o.cam)
           ELSE /\ bfs' = [bfs EXCEPT !.pc = "exit"]
                /\ cam' = o.cam
                /\ hist' = [hist EXCEPT !.started = Append(@, SlotOf("primary")),
                                        !.result = "ok"]

\* deinit, run by atexit: the secondary camera if it was set, then the
\* primary camera if it was set; an exception ends it.  bfs.deinit records
\* the roles whose command list deinit has run.
BfsDeinit(failS, failP, lenient) ==
    /\ BfsFrame
    /\ bfs.pc = "exit"
    /\ failS \in 0..Len(DeinitCmds)
    /\ failP \in 0..Len(DeinitCmds)
    /\ LET s == IF bfs.CAM["secondary"] = None THEN Raised("ok", cam)
                ELSE cam_exec_cmd_list(cam, bfs.CAM["secondary"], DeinitCmds, 1, failS, lenient)
           p == IF bfs.CAM["primary"] = None THEN Raised("ok", s.cam)
                ELSE cam_exec_cmd_list(s.cam, bfs.CAM["primary"], DeinitCmds, 1, failP, lenient)
       IN  /\ cam' = IF s.res # "ok" THEN s.cam ELSE p.cam
           /\ bfs' = [bfs EXCEPT !.pc = "done",
                                 !.deinit = {r \in Roles : /\ bfs.CAM[r] # None
                                                            /\ r = "primary" => s.res = "ok"}]
    /\ UNCHANGED hist

\* The capture sets a button can request.
(***************************************************************************)
(* A client of stereo_pyspin: any public function, on either role, in any  *)
(* order.                                                                  *)
(***************************************************************************)
\* The lifecycle state of the camera a role is bound to.
BoundState(c, b) == IF b = None THEN "Unbound" ELSE Lifecycle(c, b)

StereoCalled(op, r, kind, s, res, devcall, c, bound) ==
    /\ program = "stereo"
    /\ last.op # "destructor"
    /\ cam' = c
    /\ stereo' = [stereo EXCEPT !.CAM[r] = bound]
    /\ last' = [op |-> op, serial |-> s, pre |-> BoundState(cam, s), post |-> BoundState(c, s),
                res |-> res, devcall |-> devcall, removed |-> {}, role |-> r, kind |-> kind,
                log |-> {}]
    /\ UNCHANGED <<program, preview, gui, pace, est, conf, call, bfs, SERIAL_DICT, NUM_CAMS, SERIALS, STREAMS, cap, hist>>

\* A call of a function that works on the camera the role is bound to.
StereoOp(op, r, o) ==
    StereoCalled(op, r, "none", stereo.CAM[r], o.res, o.devcall, o.cam, stereo.CAM[r])

\* find_primary / find_secondary
StApiFind(r, text, lenient) ==
    LET f == stereo_find(cam, stereo.cams, stereo.CAM[r], text, lenient)
    IN  StereoCalled("find", r, text.kind, text.serial, f.res, "none", f.cam, f.bound)

\* init_primary / init_secondary
StApiInit(r, text, cfgfail) ==
    StereoOp("init", r, stereo_init(cam, stereo.CAM[r], text, cfgfail))

\* start_acquisition_primary / start_acquisition_secondary
StApiStartAcquisition(r) ==
    StereoOp("start_acquisition", r, stereo_start_acquisition(cam, stereo.CAM[r], FALSE))

\* end_acquisition_primary / end_acquisition_secondary
StApiEndAcquisition(r) ==
    StereoOp("end_acquisition", r, stereo_end_acquisition(cam, stereo.CAM[r], FALSE))

\* deinit_primary / deinit_secondary
StApiDeinit(r, lenient) ==
    StereoOp("deinit", r, stereo_deinit(cam, stereo.CAM[r], FALSE, lenient))

(***************************************************************************)
(* Teardown at interpreter exit (atexit).  log: what teardown found and    *)
(* did, as <<serial, "before", state>> and <<serial, step, result>>.       *)
(***************************************************************************)
\* The orders in which a loop can visit the members of S.
SeqsOf(S) == {q \in [1..Cardinality(S) -> S] : \A x \in S : \E i \in DOMAIN q : q[i] = x}

\* Mutant: a failure of end_acquisition ends the work on the camera.
destroy_cam_unsuppressed(reg, c, s, lenient) ==
    LET e == end_acquisition(reg, c, s, FALSE)
        d == deinit(reg, e.cam, s, FALSE, lenient)
    IN  IF e.res # "ok"
        THEN [cam |-> e.cam,
              log |-> {<<s, "before", Lifecycle(c, s)>>, <<s, "end_acquisition", e.res>>}]
        ELSE [cam |-> d.cam,
              log |-> {<<s, "before", Lifecycle(c, s)>>, <<s, "end_acquisition", e.res>>,
                       <<s, "deinit", d.res>>}]

\* _destructor, the body of its loop up to the pop: end_acquisition(serial)
\* and deinit(serial), each under suppress(Exception).
destroy_cam(reg, c, s, lenient) ==
    LET e == end_acquisition(reg, c, s, FALSE)
        d == deinit(reg, e.cam, s, FALSE, lenient)
    IN  [cam |-> d.cam,
         log |-> {<<s, "before", Lifecycle(c, s)>>, <<s, "end_acquisition", e.res>>,
                  <<s, "deinit", d.res>>}]

\* _destructor: for serial in list(_SERIAL_DICT), then the pop of the serial.
RECURSIVE destructor(_, _, _, _)
destructor(reg, c, todo, lenient) ==
    IF todo = <<>> THEN [SERIAL_DICT |-> reg, cam |-> c, log |-> {}]
    ELSE LET t == destroy_cam(reg, c, Head(todo), lenient)
             rest == destructor(reg \ {Head(todo)}, t.cam, Tail(todo), lenient)
         IN  [rest EXCEPT !.log = @ \cup t.log]

\* multi_pyspin exits.
Destructor(lenient) ==
    /\ program = "multi"
    /\ last.op # "destructor"
    /\ \E todo \in SeqsOf(SERIAL_DICT) :
           LET d == destructor(SERIAL_DICT, cam, todo, lenient)
           IN  /\ SERIAL_DICT' = d.SERIAL_DICT
               /\ cam' = d.cam
               /\ last' = [NoLast EXCEPT !.op = "destructor", !.res = "ok", !.log = d.log]
    /\ UNCHANGED <<program, preview, gui, pace, est, conf, call, stereo, bfs, NUM_CAMS, SERIALS, STREAMS, cap, hist>>

\* __cleanup_primary_cam / __cleanup_secondary_cam with what they did.
stereo_cleanup_log(c, b, lenient) ==
    LET e == stereo_end_acquisition(c, b, FALSE)
        d == stereo_deinit(e.cam, b, FALSE, lenient)
    IN  [cam |-> d.cam,
         log |-> IF b = None THEN {}
                 ELSE {<<b, "before", Lifecycle(c, b)>>, <<b, "end_acquisition", e.res>>,
                       <<b, "deinit", d.res>>}]

\* stereo_pyspin exits: __destructor cleans up the primary camera, then the
\* secondary one.
StereoDestructor(lenient) ==
    /\ program = "stereo"
    /\ last.op # "destructor"
    /\ LET p == stereo_cleanup_log(cam, stereo.CAM["primary"], lenient)
           s == stereo_cleanup_log(p.cam, stereo.CAM["secondary"], lenient)
       IN  /\ cam' = s.cam
           /\ stereo' = [stereo EXCEPT !.CAM = [r \in Roles |-> None]]
           /\ last' = [NoLast EXCEPT !.op = "destructor", !.res = "ok",
                                     !.log = p.log \cup s.log]
    /\ UNCHANGED <<program, preview, gui, pace, est, conf, call, bfs, SERIAL_DICT, NUM_CAMS, SERIALS, STREAMS, cap, hist>>

\* The client of multi_pyspin with the hot-plug events, or of stereo_pyspin.
NextApi ==
    \/ \E s \in Serials : ApiInit(s)
    \/ \E s \in Serials, lenient \in BOOLEAN : ApiDeinit(s, lenient)
    \/ \E s \in Serials : ApiStartAcquisition(s)
    \/ \E s \in Serials : ApiEndAcquisition(s)
    \/ \E s \in Serials, ev \in GrabEvents : ApiGetImage(s, ev)
    \/ \E s \in Serials : ApiNodeCmd(s)
    \/ \E op \in NodeWrappers, s \in Serials : ApiNodeWrapper(op, s)
    \/ \E s \in Serials : ApiUpdateTimestampOffset(s)
    \/ \E s \in Serials, cfgfail \in BOOLEAN : ApiSetup(s, cfgfail)
    \/ \E s \in Serials : ApiRelease(s)
    \/ \E s \in Serials : HandleCamArrival(s)
    \/ \E s \in Serials : HandleCamRemoval(s)
    \/ \E r \in Roles, text \in Texts, lenient \in BOOLEAN : StApiFind(r, text, lenient)
    \/ \E r \in Roles, text \in Texts, cfgfail \in BOOLEAN : StApiInit(r, text, cfgfail)
    \/ \E r \in Roles : StApiStartAcquisition(r)
    \/ \E r \in Roles : StApiEndAcquisition(r)
    \/ \E r \in Roles, lenient \in BOOLEAN : StApiDeinit(r, lenient)
    \/ \E lenient \in BOOLEAN : Destructor(lenient)
    \/ \E lenient \in BOOLEAN : StereoDestructor(lenient)

SpecApi == Init /\ [][NextApi]_vars

CamNumSets == {SingleCamNums(k) : k \in Slots(NUM_CAMS)} \cup {MultiCamNums(NUM_CAMS)}

Next ==
    \/ \E n \in 0..MaxNumCams : NumCamsWrapped(n)
    \/ \E k \in Slots(NUM_CAMS), s \in Serials, cfgfail \in BOOLEAN : SetupWrapped(k, s, cfgfail)
    \/ \E k \in Slots(NUM_CAMS) : StartStreamWrapped(k)
    \/ \E k \in Slots(NUM_CAMS) : StopStreamWrapped(k)
    \/ \E cn \in CamNumSets, ni \in 0..MaxImages, nb \in 0..MaxBursts : SaveImages(cn, ni, nb)
    \/ CapStart(FALSE)
    \/ \E ev \in GrabEvents : CapGrab(ev)
    \/ CapCheck
    \/ \E failAt \in 0..MaxNumCams : CapSave(failAt)
    \/ CapRelease
    \/ CapEnd(FALSE)
    \/ \E stop \in BOOLEAN : CapNext(stop)
    \/ \E cb \in ButtonCallbacks : StereoClick(cb)
    \/ StereoHandleStreams
    \/ StereoDrained
    \/ \E text \in Texts, cfgfail \in BOOLEAN, lenient \in BOOLEAN :
           StereoFindAndInit(text, cfgfail, lenient)
    \/ StereoStartAcquisition
    \/ StereoStopAcquisition
    \/ \E ev \in StereoGrabEvents : StereoStreamImage(ev)
    \/ \E n \in 0..MaxImages : StereoSaveImages(n)
    \/ StereoSaveStartSecondary
    \/ StereoSaveStartPrimary
    \/ \E evp \in StereoGrabEvents, evs \in StereoGrabEvents, savefail \in BOOLEAN :
           StereoSaveGrab(evp, evs, savefail)
    \/ StereoSaveEnd
    \/ \E primary \in Serials, secondary \in Serials, order \in CamLists(bfs.cams) :
           BfsInit(primary, secondary, order)
    \/ \E failAt \in 0..Len(InitSecondaryCmds) : BfsInitSecondary(failAt)
    \/ \E failAt \in 0..Len(InitPrimaryCmds) : BfsInitPrimary(failAt)
    \/ \E failS \in 0..Len(DeinitCmds), failP \in 0..Len(DeinitCmds), lenient \in BOOLEAN :
           BfsDeinit(failS, failP, lenient)

Spec == Init /\ [][Next]_vars

\* The same program on devices that can fail a start or a stop of acquisition.
NextDev ==
    \/ Next
    \/ CapStart(TRUE)
    \/ CapEnd(TRUE)

SpecDev == Init /\ [][NextDev]_vars

(***************************************************************************)
(* The init list of a yaml file, applied by _setup (multi_pyspin) and by   *)
(* __init_cam (stereo_pyspin) through _node_cmd / __cam_node_cmd.          *)
(***************************************************************************)
\* What an entry gives as `value`: no such key, null, a number, a string
\* "PySpin.X", a string "PySpin.X.Y".
ArgKinds == {"absent", "null", "plain", "enum", "nested"}

\* The entries of an init list: a dict with one key (a node, its optional
\* value and, read by stereo_pyspin only, its optional access mode), a dict
\* with two keys, an empty dict, and an item that is no dict.
OneKey == [kind : {"one_key"}, feature : Features, arg : ArgKinds, access : {"none", "WO", "RW"}]
OtherEntry(kind) == [kind |-> kind, feature |-> "F", arg |-> "absent", access |-> "none"]
Entries == OneKey \cup {OtherEntry("two_keys"), OtherEntry("no_key"), OtherEntry("scalar")}

\* The argument _node_cmd hands to the method: None for no value, the PySpin
\* attribute for "PySpin.X".
MethodArg(arg) ==
    CASE arg \in {"absent", "null"} -> "none"
      [] arg = "enum" -> "X"
      [] OTHER -> arg

\* Mutant: the method is invoked before the access mode is looked at.
node_cmd_invoke_first(mode, value, method, req, arg, devfail) ==
    [res |-> IF req # "none" /\ mode # req THEN "access_error" ELSE "ok", invoked |-> 1,
     value |-> IF method = "SetValue" THEN MethodArg(arg) ELSE value]

\* _node_cmd / __cam_node_cmd on a node with access mode `mode` and value
\* `value`: the access mode check, the PySpin argument, then the method,
\* once.  invoked: how many times the method was called.
node_cmd_on_node(mode, value, method, req, arg, devfail) ==
    IF req # "none" /\ mode # req THEN [res |-> "access_error", invoked |-> 0, value |-> value]
    ELSE IF arg = "nested" THEN [res |-> "nested_error", invoked |-> 0, value |-> value]
    ELSE IF devfail THEN [res |-> "sdk_error", invoked |-> 1, value |-> value]
    ELSE [res |-> "ok", invoked |-> 1,
          value |-> IF method = "SetValue" THEN MethodArg(arg) ELSE value]

\* The method of an entry: SetValue when it has a value that is not None.
MethodOf(e) == IF MethodArg(e.arg) # "none" THEN "SetValue" ELSE "Execute"

\* The access mode checked for an entry: _setup always asks for RW,
\* __init_cam for what the entry's `access` key says, if anything.
AccessOf(prog, e) == IF prog = "multi" THEN "RW" ELSE e.access

\* Mutant: an entry with several keys is applied as its first key.
entry_first_key(prog, e, mode, value, devfail) ==
    IF e.kind = "scalar" THEN [res |-> "ok", invoked |-> 0, value |-> value[e.feature], gateway |-> FALSE]
    ELSE [gateway |-> TRUE] @@
         node_cmd_on_node(mode[e.feature], value[e.feature], MethodOf(e), AccessOf(prog, e),
                          e.arg, devfail)

\* One pass of the loop over the init list.  gateway: _node_cmd was called.
entry(prog, e, mode, value, devfail) ==
    IF e.kind = "scalar" THEN [res |-> "ok", invoked |-> 0, value |-> value[e.feature], gateway |-> FALSE]
    ELSE IF e.kind # "one_key"
    THEN [res |-> "malformed", invoked |-> 0, value |-> value[e.feature], gateway |-> FALSE]
    ELSE [gateway |-> TRUE] @@
         node_cmd_on_node(mode[e.feature], value[e.feature], MethodOf(e), AccessOf(prog, e),
                          e.arg, devfail)

\* Mutant: the loop goes on after a command that raised.
aborts_never(res) == FALSE

\* An exception leaves the loop and the function.
aborts(res) == res # "ok"

CfgFrame ==
    UNCHANGED <<program, preview, gui, pace, est, call, stereo, bfs, SERIAL_DICT, last, NUM_CAMS, SERIALS, STREAMS, cap, hist>>

\* What the document holds under "init": a list, nothing (no "init" key, or
\* a document that is not a mapping), or something that is not a list.
InitFields == {"list", "absent", "other"}

\* isinstance(node_cmd_dicts, list): the loop runs for a list only; there is
\* no else branch.
init_is_list(field) == field = "list"

\* setup(yaml_path) / init_primary(yaml_path) up to the loop: the camera is
\* looked up, the file exists, cam.Init(), the yaml is loaded.  mode: the
\* access modes the nodes of this camera have.
CfgBegin(s, mode, field) ==
    /\ conf.pc \in {"idle", "done"}
    /\ \/ program = "multi" /\ s \in SERIAL_DICT
       \/ program = "stereo" /\ s \in stereo.cams
    /\ cam' = Initialize(cam, s)
    /\ conf' = IF init_is_list(field)
               THEN [IdleCfg EXCEPT !.pc = "loop", !.serial = s, !.mode = mode,
                                    !.res = "pending", !.init = field]
               ELSE [IdleCfg EXCEPT !.pc = "done", !.serial = s, !.mode = mode,
                                    !.res = "ok", !.init = field]
    /\ CfgFrame

\* The next entry of the list, whatever the file holds there.
CfgEntry(e, devfail) ==
    /\ conf.pc = "loop"
    /\ Len(conf.list) < MaxCmds
    /\ program = "multi" => e.access = "none"
    /\ LET o == entry(program, e, conf.mode, conf.value, devfail)
       IN  conf' = [conf EXCEPT
                     !.list = Append(@, e),
                     !.value[e.feature] = o.value,
                     !.calls = IF o.gateway
                               THEN Append(@, [idx |-> Len(conf.list) + 1, feature |-> e.feature,
                                               method |-> MethodOf(e), req |-> AccessOf(program, e),
                                               arg |-> MethodArg(e.arg), invoked |-> o.invoked,
                                               res |-> o.res, mode |-> conf.mode[e.feature],
                                               before |-> conf.value[e.feature],
                                               after |-> o.value])
                               ELSE @,
                     !.pc = IF aborts(o.res) THEN "done" ELSE "loop",
                     !.res = IF aborts(o.res) THEN o.res ELSE "pending"]
    /\ UNCHANGED cam
    /\ CfgFrame

\* The list has no further entry: the function returns.
CfgReturn ==
    /\ conf.pc = "loop"
    /\ conf' = [conf EXCEPT !.pc = "done", !.res = "ok"]
    /\ UNCHANGED cam
    /\ CfgFrame

NextCfg ==
    \/ \E s \in Serials, mode \in [Features -> Modes], field \in InitFields :
           CfgBegin(s, mode, field)
    \/ \E e \in Entries, devfail \in BOOLEAN : CfgEntry(e, devfail)
    \/ CfgReturn

SpecCfg == Init /\ [][NextCfg]_vars

(***************************************************************************)
(* _compute_timestamp_offset: the median of wall clock minus latched       *)
(* camera timer.                                                           *)
(***************************************************************************)
\* The divisor of the latch value: the latch is in nanoseconds.
NsPerSec == 1000000000

\* What datetime.now().timestamp() returns (seconds), and what the camera
\* timer holds when latched (nanoseconds).
Walls == {0, 1}
Latches == {NsPerSec \div 2 - 1, NsPerSec \div 2, NsPerSec \div 2 + 1}

\* wall - latch/1e9, kept exact as a count of nanoseconds.
timestamp_offset(wall, latch) == wall * NsPerSec - latch

\* sorted(data), by insertion.
RECURSIVE insert(_, _)
insert(x, s) ==
    IF s = <<>> THEN <<x>>
    ELSE IF x <= Head(s) THEN <<x>> \o s
    ELSE <<Head(s)>> \o insert(x, Tail(s))

RECURSIVE sorted(_)
sorted(data) == IF data = <<>> THEN <<>> ELSE insert(Head(data), sorted(Tail(data)))

\* Mutant: the upper of the two middle values, for an even count.
median_high(data) ==
    LET s == sorted(data)
        n == Len(s)
    IN  [num |-> s[n \div 2 + 1], den |-> 1]

\* statistics.median: the middle value of the sorted data, or the mean of the
\* two middle values.
median(data) ==
    LET s == sorted(data)
        n == Len(s)
    IN  IF n % 2 = 1 THEN [num |-> s[n \div 2 + 1], den |-> 1]
        ELSE [num |-> s[n \div 2] + s[n \div 2 + 1], den |-> 2]

EstFrame ==
    UNCHANGED <<program, preview, gui, pace, call, conf, stereo, bfs, SERIAL_DICT, cam, last, NUM_CAMS, SERIALS, STREAMS, cap, hist>>

\* _compute_timestamp_offset(cam, n) is entered.
EstBegin(n) ==
    /\ est.pc \in {"idle", "done"}
    /\ est' = [IdleEst EXCEPT !.pc = "loop", !.n = n]
    /\ EstFrame

\* One iteration: latch, read the clock and the latch value, append.
EstSample(wall, latch) ==
    /\ est.pc = "loop"
    /\ Len(est.offsets) < est.n
    /\ est' = [est EXCEPT !.latches = @ + 1,
                          !.pairs = Append(@, [wall |-> wall, latch |-> latch]),
                          !.offsets = Append(@, timestamp_offset(wall, latch))]
    /\ EstFrame

\* The loop is over: the median is returned.
EstReturn ==
    /\ est.pc = "loop"
    /\ Len(est.offsets) = est.n
    /\ est' = [est EXCEPT !.pc = "done", !.res = median(est.offsets)]
    /\ EstFrame

NextEst ==
    \/ \E n \in 1..MaxSamples : EstBegin(n)
    \/ \E wall \in Walls, latch \in Latches : EstSample(wall, latch)
    \/ EstReturn

SpecEst == Init /\ [][NextEst]_vars

(***************************************************************************)
(* The pacing of the image loop of _save_images.  What happens between the *)
(* start of acquisition and the end of the image is one step here; it is   *)
(* the subject of CapStart .. CapNext.                                     *)
(***************************************************************************)
\* _DELAY_WARNING_TOLERANCE = 1e-3 seconds: one tick.
DELAY_WARNING_TOLERANCE == 1

\* Mutant: the loop does not wait.
delay_pending_never(total_delay, num_image, delay) == FALSE

\* The condition of the while loop.
delay_pending(total_delay, num_image, delay) == total_delay < num_image * delay

\* "Make sure delay is not too off"
delay_off(total_delay, num_image, delay) ==
    (total_delay - num_image * delay) > DELAY_WARNING_TOLERANCE

PaceFrame ==
    UNCHANGED <<program, preview, gui, call, conf, est, stereo, bfs, SERIAL_DICT, cam, last, NUM_CAMS, SERIALS, STREAMS, cap, hist>>

\* time_begin = datetime.now(); total_delay = 0, before the first image.
PaceBegin(delay, num_images) ==
    /\ program = "multi"
    /\ pace.pc \in {"idle", "done"}
    /\ pace' = [IdlePace EXCEPT !.pc = IF num_images = 0 THEN "done" ELSE "wait",
                                !.delay = delay, !.num_images = num_images]
    /\ PaceFrame

\* The clock advances while an image is taken and while the loop waits; the
\* steps from leaving the while loop to the start of acquisition take no
\* time.
Tick ==
    /\ \/ pace.pc = "image"
       \/ /\ pace.pc = "wait"
          /\ delay_pending(pace.total_delay, pace.num_image, pace.delay)
    /\ pace.now < MaxTime
    /\ pace' = [pace EXCEPT !.now = @ + 1]
    /\ PaceFrame

\* One round of the while loop that does not leave it: the clock is read
\* and the delay is still pending.
PaceSpin ==
    /\ pace.pc = "wait"
    /\ delay_pending(pace.total_delay, pace.num_image, pace.delay)
    /\ delay_pending(pace.now, pace.num_image, pace.delay)
    /\ pace' = [pace EXCEPT !.total_delay = pace.now]
    /\ PaceFrame

\* The while loop is left (after a last reading of the clock, if it was
\* entered), the delay is checked and acquisition is started.
PaceStart ==
    /\ pace.pc = "wait"
    /\ LET td == IF delay_pending(pace.total_delay, pace.num_image, pace.delay)
                 THEN pace.now ELSE pace.total_delay
       IN  /\ ~delay_pending(td, pace.num_image, pace.delay)
           /\ pace' = [pace EXCEPT
                        !.pc = "image",
                        !.total_delay = td,
                        !.warned = IF delay_off(td, pace.num_image, pace.delay)
                                   THEN @ \cup {pace.num_image} ELSE @,
                        !.begun = Append(@, pace.now)]
    /\ PaceFrame

\* The image is over: bursts, end of acquisition, counter, _update_fig.
\* leave: an exception was raised, or the image-count field was cleared.
PaceImage(leave) ==
    /\ pace.pc = "image"
    /\ pace' = IF last_image(leave, pace.num_image, pace.num_images)
               THEN [pace EXCEPT !.pc = "done"]
               ELSE [pace EXCEPT !.pc = "wait", !.num_image = @ + 1]
    /\ PaceFrame

NextPace ==
    \/ \E delay \in 0..MaxDelay, n \in 0..MaxImages : PaceBegin(delay, n)
    \/ Tick
    \/ PaceSpin
    \/ PaceStart
    \/ \E leave \in BOOLEAN : PaceImage(leave)

SpecPace == Init /\ [][NextPace]_vars

(***************************************************************************)
(* The main loops of multi_pyspin_gui and stereo_pyspin_gui, and the queue *)
(* the widget callbacks are put in.                                        *)
(***************************************************************************)
\* What a widget callback does: a capture updates the figure while it runs.
Kinds == {"plain", "capture"}

\* The callbacks whose widgets are used during one update of the figure.
Clicks == UNION {[1..n -> Kinds] : n \in 0..MaxEvents}

\* _queue_wrapper: the call of a wrapped function puts it in the queue.
RECURSIVE queue_wrapper(_, _)
queue_wrapper(g, kinds) ==
    IF kinds = <<>> THEN g
    ELSE queue_wrapper([g EXCEPT !.kind = Append(@, Head(kinds)),
                                 !.queue = Append(@, Len(g.kind) + 1)],
                       Tail(kinds))

\* Mutant: the queue is read from its newest end.
QueueGetNewest(queue) ==
    [item |-> queue[Len(queue)], rest |-> SubSeq(queue, 1, Len(queue) - 1)]

\* _QUEUE.get()
QueueGet(queue) == [item |-> Head(queue), rest |-> Tail(queue)]

\* fig.canvas.draw(); fig.canvas.flush_events() / plt.pause(): the pending
\* events of the window are handled: clicks put callbacks in the queue, a
\* close request destroys the figure.
update_fig(g, clicks, close) ==
    IF ~g.window THEN g
    ELSE [queue_wrapper(g, clicks) EXCEPT !.window = ~close]

\* After the main loop: _QUEUE = queue.Queue().
cleanup(g) == [g EXCEPT !.pc = "exited", !.queue = <<>>, !.running = 0, !.depth = 0]

GuiFrame ==
    UNCHANGED <<program, preview, call, conf, est, pace, stereo, bfs, SERIAL_DICT, cam, last, NUM_CAMS, SERIALS, STREAMS, cap, hist>>

\* while plt.fignum_exists(...): stream: multi_pyspin_gui puts
\* _stream_images_wrapped in the queue when a stream is on.
GuiTop(stream) ==
    /\ program \in {"multi", "stereo"}
    /\ gui.pc = "top"
    /\ stream => program = "multi" /\ Len(gui.kind) < MaxCallbacks
    /\ gui' = IF ~gui.window THEN cleanup(gui)
              ELSE [IF stream THEN queue_wrapper(gui, <<"plain">>) ELSE gui
                        EXCEPT !.pc = IF program = "multi" THEN "drain" ELSE "pause"]
    /\ GuiFrame

\* The update of the figure in the main loop: after a callback and at the
\* end of an iteration (multi), at the beginning of an iteration (stereo).
\* raises: the update of a destroyed figure raises; the main loop does not
\* raise again when the figure is gone.
GuiUpdate(clicks, close, raises) ==
    /\ gui.pc \in {"update", "pause"}
    /\ Len(gui.kind) + Len(clicks) <= MaxCallbacks
    /\ gui.window \/ (clicks = <<>> /\ ~close)
    /\ LET g == update_fig(gui, clicks, close)
       IN  /\ raises => ~g.window
           /\ gui' = IF raises THEN cleanup(g)
                     ELSE [g EXCEPT !.pc = IF gui.pc = "pause" /\ program = "multi"
                                           THEN "top" ELSE "drain"]
    /\ GuiFrame

\* while not _QUEUE.empty(): the next callback is taken and called.
GuiGet ==
    /\ gui.pc = "drain"
    /\ gui.queue # <<>>
    /\ gui' = [gui EXCEPT !.queue = QueueGet(gui.queue).rest,
                          !.running = QueueGet(gui.queue).item,
                          !.order = Append(@, QueueGet(gui.queue).item),
                          !.depth = @ + 1,
                          !.pc = "run"]
    /\ GuiFrame

\* The queue is empty: the inner loop is over.
GuiDrained ==
    /\ gui.pc = "drain"
    /\ gui.queue = <<>>
    /\ gui' = [gui EXCEPT !.pc = IF program = "multi" THEN "pause" ELSE "top"]
    /\ GuiFrame

\* A running capture updates the figure after an image.
GuiCapture(clicks, close) ==
    /\ gui.pc = "run"
    /\ gui.kind[gui.running] = "capture"
    /\ Len(gui.kind) + Len(clicks) <= MaxCallbacks
    /\ gui.window \/ (clicks = <<>> /\ ~close)
    /\ gui' = update_fig(gui, clicks, close)
    /\ GuiFrame

\* The callback returns or raises an Exception: the except clause of the
\* main loop (multi) or of __message_box_wrapper (stereo) shows it.
GuiReturn(raises) ==
    /\ gui.pc = "run"
    /\ gui' = [gui EXCEPT !.running = 0,
                          !.depth = @ - 1,
                          !.raised = IF raises THEN @ \cup {gui.running} ELSE @,
                          !.shown = IF raises THEN @ \cup {gui.running} ELSE @,
                          !.pc = IF program = "multi" THEN "update" ELSE "drain"]
    /\ GuiFrame

NextQueue ==
    \/ \E stream \in BOOLEAN : GuiTop(stream)
    \/ \E clicks \in Clicks, close \in BOOLEAN, raises \in BOOLEAN : GuiUpdate(clicks, close, raises)
    \/ GuiGet
    \/ GuiDrained
    \/ \E clicks \in Clicks, close \in BOOLEAN : GuiCapture(clicks, close)
    \/ \E raises \in BOOLEAN : GuiReturn(raises)

\* The main loop is the one thread of the program and goes on; a callback
\* that is running returns or raises.
SpecQueue ==
    /\ Init
    /\ [][NextQueue]_vars
    /\ WF_vars(NextQueue)
    /\ WF_vars(\E raises \in BOOLEAN : GuiReturn(raises))

(***************************************************************************)
(* multi_pyspin_gui._stream_images_wrapped: one pass of the preview.       *)
(***************************************************************************)
\* "Get image dicts", from slot k on.  A grab that raises stops the stream
\* of its slot and ends the pass.
RECURSIVE stream_get_images(_, _, _, _, _, _, _, _, _)
stream_get_images(reg, c, ser, streams, evs, n, k, dicts, grabbed) ==
    IF k >= n
    THEN [res |-> "ok", cam |-> c, STREAMS |-> streams, dicts |-> dicts, grabbed |-> grabbed]
    ELSE IF ~streams[k]
    THEN stream_get_images(reg, c, ser, streams, evs, n, k + 1, dicts, grabbed)
    ELSE IF get_and_validate_serial(ser, k) # "ok"
    THEN [res |-> get_and_validate_serial(ser, k), cam |-> c,
          STREAMS |-> [streams EXCEPT ![k] = FALSE], dicts |-> dicts, grabbed |-> grabbed]
    ELSE LET o == get_image(reg, c, ser[k], evs[k])
         IN  IF o.res # "ok"
             THEN LET g == stop_stream(reg, o.cam, ser, streams, k)
                  IN  [res |-> o.res, cam |-> g.cam, STREAMS |-> g.STREAMS,
                       dicts |-> dicts, grabbed |-> grabbed]
             ELSE stream_get_images(reg, o.cam, ser, streams, evs, n, k + 1,
                                    [dicts EXCEPT ![k] = o.ret], grabbed \cup {k})

\* "Release images", from slot k on: image_dicts[cam_num]['image'].Release()
\* raises KeyError on the empty dict of an incomplete image.
RECURSIVE stream_release_images(_, _, _, _, _, _, _)
stream_release_images(c, ser, streams, dicts, n, k, released) ==
    IF k >= n THEN [res |-> "ok", cam |-> c, released |-> released]
    ELSE IF ~streams[k]
    THEN stream_release_images(c, ser, streams, dicts, n, k + 1, released)
    ELSE IF ~dicts[k].complete
    THEN [res |-> "key_error", cam |-> c, released |-> released]
    ELSE stream_release_images(ReleaseImage(c, ser[k]), ser, streams, dicts, n, k + 1,
                               released \cup {k})

\* _stream_images_wrapped(), called by the main loop when a stream is on.
\* evs: what the grab of each slot yields.
StreamImagesWrapped(evs) ==
    /\ program = "multi"
    /\ cap.pc = "idle"
    /\ \E k \in Slots(NUM_CAMS) : STREAMS[k]
    /\ \A k \in Slots(NUM_CAMS) : SERIALS[k] # None => cam[SERIALS[k]].frame < MaxFrameId
    /\ hist' = NoHist
    /\ LET g == stream_get_images(SERIAL_DICT, cam, SERIALS, STREAMS, evs, NUM_CAMS, 0,
                                  FreshDicts(NUM_CAMS), {})
           r == stream_release_images(g.cam, SERIALS, g.STREAMS, g.dicts, NUM_CAMS, 0, {})
       IN  IF g.res # "ok"
           THEN /\ cam' = g.cam
                /\ STREAMS' = g.STREAMS
                /\ preview' = [res |-> g.res, grabbed |-> g.grabbed, released |-> {}]
           ELSE /\ cam' = r.cam
                /\ STREAMS' = g.STREAMS
                /\ preview' = [res |-> r.res, grabbed |-> g.grabbed, released |-> r.released]
    /\ UNCHANGED <<program, call, conf, est, pace, gui, stereo, bfs, SERIAL_DICT, last, NUM_CAMS, SERIALS, cap>>

NextStream ==
    \/ \E n \in 0..MaxNumCams : NumCamsWrapped(n)
    \/ \E k \in Slots(NUM_CAMS), s \in Serials, cfgfail \in BOOLEAN : SetupWrapped(k, s, cfgfail)
    \/ \E k \in Slots(NUM_CAMS) : StartStreamWrapped(k)
    \/ \E k \in Slots(NUM_CAMS) : StopStreamWrapped(k)
    \/ \E evs \in [Slots(NUM_CAMS) -> GrabEvents] : StreamImagesWrapped(evs)

SpecStream == Init /\ [][NextStream]_vars

(***************************************************************************)
(* multi_pyspin_gui with hot-plug: the SDK's event thread runs             *)
(* _SystemEventHandler.OnDeviceRemoval while _save_images is inside its    *)
(* try body (acquisition of the capture set is started, not yet ended).    *)
(***************************************************************************)
\* The serials of the slots of a capture set.
CaptureSerials(ser, cam_nums) == {ser[cam_nums[i]] : i \in 1..Len(cam_nums)}

\* OnDeviceRemoval of a camera of the capture set: _handle_cam_removal pops
\* the registry entry; the capture is not told.  hist.faults keeps the event.
CapRemoval(s) ==
    /\ program = "multi"
    /\ cap.pc \in {"grab", "check", "save", "release"}
    /\ s \in SERIAL_DICT \cap CaptureSerials(SERIALS, cap.cam_nums)
    /\ SERIAL_DICT' = handle_cam_removal(SERIAL_DICT, s)
    /\ cam' = [cam EXCEPT ![s] = Detached]
    /\ hist' = [hist EXCEPT !.faults = @ \cup {"removed"}]
    /\ UNCHANGED <<program, preview, gui, pace, est, conf, call, stereo, bfs, last, NUM_CAMS, SERIALS, STREAMS, cap>>

NextPlug ==
    \/ Next
    \/ \E s \in Serials : CapRemoval(s)

SpecPlug == Init /\ [][NextPlug]_vars

(***************************************************************************)
(* Properties.                                                             *)
(***************************************************************************)
\* The cameras of a capture set.
SetSerials(cam_nums) == {SERIALS[cam_nums[i]] : i \in 1..Len(cam_nums)}

NoneStreaming(cam_nums) == \A s \in SetSerials(cam_nums) : ~cam[s].streaming
AllStreaming(cam_nums) == \A s \in SetSerials(cam_nums) : cam[s].streaming

\* The capture call has returned or raised.
Exited == program = "multi" /\ cap.pc = "idle" /\ hist.result # "none"

\* C1: a grab that times out (or yields an incomplete image) is that
\* camera's empty result for the slot; the capture does not abort: when a
\* capture of two cameras and several images has exited, timeouts were its
\* only faults and no stop was requested, the call has ended without an
\* error and all requested images have been taken.
C1_TimeoutDoesNotAbort ==
    (/\ Exited
     /\ Len(hist.cam_nums) = 2
     /\ hist.requested >= 2
     /\ hist.faults # {}
     /\ hist.faults \subseteq {"timeout", "incomplete"}
     /\ ~hist.stopped)
        => (hist.result = "ok" /\ hist.images = hist.requested)

\* C2: once a slot is desynchronized (every camera delivered a frame, some
\* frame id is not the burst index) no further burst of the image is grabbed
\* and nothing of the slot is saved; when the image ends, acquisition has
\* been ended on every camera of the set, in order, and none is streaming;
\* and a capture whose only faults were mismatches ends without an error
\* with all requested images taken (unless a stop was requested).
C2_DesyncSkipsBurstsNotSession ==
    /\ cap.desync => (cap.pc \in {"end", "next"} /\ cap.saved = {})
    /\ (cap.desync /\ cap.pc = "next")
           => (hist.ended = cap.cam_nums /\ NoneStreaming(cap.cam_nums))
    /\ (Exited /\ hist.faults = {"mismatch"})
           => /\ hist.result = "ok"
              /\ hist.ended = hist.cam_nums
              /\ ~hist.stopped => hist.images = hist.requested

\* C2 witness: a later image of a two-camera capture is being grabbed after
\* an earlier image was cut short by a mismatch.
C2_Witness ==
    /\ cap.pc = "grab"
    /\ cap.num_image >= 1
    /\ Len(cap.cam_nums) = 2
    /\ "mismatch" \in hist.faults

\* C3: frames of a slot are saved only if every camera of the capture set
\* reported the burst index as its frame id in that slot.
C3_SavedOnlyWhenAligned ==
    cap.saved # {} =>
        \A i \in 1..Len(cap.cam_nums) :
            /\ cap.image_dicts[cap.cam_nums[i]].complete
            /\ cap.image_dicts[cap.cam_nums[i]].frameid = cap.num_burst

\* C3 witness: both frames of the second burst of a two-camera capture have
\* been saved.
C3_Witness ==
    /\ Len(cap.cam_nums) = 2
    /\ cap.num_burst = 1
    /\ cap.saved = {0, 1}

C5_NotHalfStopped ==
    (Exited /\ hist.faults \cap {"start", "end"} # {})
        => /\ hist.result = "error"
           /\ \/ \A i \in 1..Len(hist.started) : ~cam[SERIALS[hist.started[i]]].streaming
              \/ AllStreaming(hist.cam_nums)

\* C6: when the acquisition of an image is ended after a frame id mismatch,
\* no camera of the set holds an image of the slot that was not released.
C6_ReleasedBeforeEnd ==
    (cap.pc = "end" /\ cap.idx = 1 /\ cap.desync)
        => \A s \in SetSerials(cap.cam_nums) : cam[s].unreleased = 0

\* C7: in each of the three programs acquisition is started in the order of
\* the capture set (for the multi-camera GUI the order its caller passed),
\* and in a capture of several cameras the primary camera (slot 0) is
\* started only after every other camera of the set has been started, for
\* every image.
C7_PrimaryStartsLast ==
    /\ cap.pc # "idle" => hist.cam_nums = cap.cam_nums
    /\ hist.started = SubSeq(hist.cam_nums, 1, Len(hist.started))
    /\ \A i \in 1..Len(hist.started) :
           hist.started[i] = 0 =>
               \A j \in 1..Len(hist.cam_nums) :
                   hist.cam_nums[j] # 0 => \E h \in 1..(i - 1) : hist.started[h] = hist.cam_nums[j]

\* C7 witness: every camera of a capture of several cameras has been started
\* for the second image.
C7_Witness ==
    /\ program = "multi"
    /\ cap.pc = "grab"
    /\ cap.num_image = 1
    /\ Len(hist.started) >= 2
    /\ Len(hist.started) = NUM_CAMS

\* The lifecycle state an operation requires.
Required(op) ==
    CASE op = "deinit" -> {"Initialized"}
      [] op = "start_acquisition" -> {"Initialized"}
      [] op = "end_acquisition" -> {"Streaming"}
      [] op = "get_image" -> {"Streaming"}
      [] op = "node_cmd" -> {"Initialized", "Streaming"}
      [] op = "update_timestamp_offset" -> {"Initialized", "Streaming"}
      [] OTHER -> {"Found", "Initialized", "Streaming"}

\* One step along Found -> Initialized -> Streaming -> Initialized -> Found.
LifecycleSteps ==
    {<<"Found", "Initialized">>, <<"Initialized", "Streaming">>,
     <<"Streaming", "Initialized">>, <<"Initialized", "Found">>}

\* C8: a public operation changes the lifecycle state of a registered camera
\* by at most one step of the lifecycle, and invoked outside its required
\* state it raises an invalid-state error and leaves the state unchanged.
C8_LifecycleDiscipline ==
    (last.op # "none" /\ last.pre # "Gone")
        => /\ last.post = last.pre \/ <<last.pre, last.post>> \in LifecycleSteps
           /\ last.pre \notin Required(last.op)
                  => (last.res \in InvalidStateErrors /\ last.post = last.pre)

\* C9: end_acquisition on a camera that is Found or Initialized raises the
\* library's invalid-state error without invoking the device's
\* EndAcquisition; on a Streaming camera it leaves the camera Initialized.
C9_EndAcquisitionGuarded ==
    last.op = "end_acquisition"
        => /\ last.pre \in {"Found", "Initialized"}
                  => (last.res \in InvalidStateErrors /\ last.devcall = "none")
           /\ last.pre = "Streaming" => (last.res = "ok" /\ last.post = "Initialized")

\* C10: deinit on a camera that is Streaming or Found raises an invalid-state
\* error and leaves the state unchanged; on an Initialized camera it leaves
\* the camera Found.
C10_DeinitGuarded ==
    last.op = "deinit"
        => /\ last.pre \in {"Streaming", "Found"}
                  => (last.res \in InvalidStateErrors /\ last.post = last.pre)
           /\ last.pre = "Initialized" => (last.res = "ok" /\ last.post = "Found")


\* C11: start_acquisition moves an Initialized camera to Streaming; on a
\* camera in any other state (Found, or already Streaming) it fails with an
\* invalid-state error of the library's guard and the device's
\* BeginAcquisition is not invoked.
C11_StartAcquisitionGuarded ==
    last.op = "start_acquisition" =>
        /\ last.pre = "Initialized" => last.res = "ok" /\ last.post = "Streaming"
        /\ last.pre \in {"Found", "Streaming"} =>
               last.res \in InvalidStateErrors /\ last.devcall = "none"


\* The lifecycle states in which a public function may touch the device.
Needs(op) ==
    IF op = "get_image" THEN {"Streaming"} ELSE {"Initialized", "Streaming"}

\* The error that names what a camera in state `pre` lacks for `op`.
Precise(op, pre) ==
    CASE pre = "Gone" -> "not_connected"
      [] pre = "Found" -> "not_initialized"
      [] OTHER -> "not_streaming"

\* C12: get_image grabs only on a registered Streaming camera; node_cmd, the
\* gain, exposure and frame-rate accessors and update_timestamp_offset touch
\* the device only on a registered camera that is Initialized or Streaming;
\* in every other state they raise the error naming the missing state and
\* make no device call.
C12_GuardBeforeDevice ==
    last.op \in {"get_image", "node_cmd", "update_timestamp_offset"} \cup NodeWrappers =>
        IF last.pre \in Needs(last.op)
        THEN last.devcall # "none"
        ELSE last.devcall = "none" /\ last.res = Precise(last.op, last.pre)
             /\ last.post = last.pre

C12_Witness ==
    /\ last.op = "get_image"
    /\ last.pre = "Initialized"
    /\ last.res = "not_streaming"
    /\ last.devcall = "none"


\* C13: every operation that initializes a camera estimates and stores the
\* clock offset right after the device Init, so the offset stored for a
\* registered camera that is Initialized or Streaming was estimated after the
\* camera last went from Found to Initialized.
C13_OffsetEstimatedAfterInit ==
    program = "multi" =>
        \A s \in SERIAL_DICT : cam[s].init => cam[s].offset_current


\* The public functions of multi_pyspin that take a serial (setup: through
\* the document it is given).
PublicOps ==
    {"init", "deinit", "start_acquisition", "end_acquisition", "get_image", "node_cmd",
     "update_timestamp_offset", "setup"} \cup NodeWrappers

\* The step just taken is the event or call recorded in last'.
Did(op) == last' # last /\ last'.op = op

\* C14: an arrival for a serial that is not registered adds exactly one
\* entry, whose camera is in state Found; an arrival for a registered serial
\* leaves its entry (lifecycle state, clock offset) unchanged.
C14_ArrivalBindsFound ==
    [][Did("arrival") =>
          IF last'.serial \in SERIAL_DICT
          THEN SERIAL_DICT' = SERIAL_DICT /\ cam'[last'.serial] = cam[last'.serial]
          ELSE /\ SERIAL_DICT' = SERIAL_DICT \cup {last'.serial}
               /\ Lifecycle(cam', last'.serial) = "Found"]_vars

\* C15: once the removal of a serial has been handled, every public function
\* called on that serial fails with the not-connected error, without a device
\* call, until the serial arrives again; a removal for a serial that is not
\* registered raises nothing and changes no entry.
C15_RemovedIsNotConnected ==
    [][/\ (last' # last /\ last'.op \in PublicOps /\ last'.serial \in last.removed) =>
              last'.res = "not_connected" /\ last'.devcall = "none"
       /\ Did("removal") =>
              /\ last'.res = "ok"
              /\ last'.serial \notin SERIAL_DICT'
              /\ \A t \in Serials \ {last'.serial} :
                     (t \in SERIAL_DICT' <=> t \in SERIAL_DICT) /\ cam'[t] = cam[t]
              /\ last'.serial \notin SERIAL_DICT => SERIAL_DICT' = SERIAL_DICT /\ cam' = cam
       /\ \A s \in last'.removed : s \notin SERIAL_DICT']_vars

\* A function was called on a serial whose removal had been handled.
C15_Witness ==
    /\ last.op = "get_image"
    /\ last.serial \in last.removed
    /\ last.res = "not_connected"


\* C16: registry insert, remove and lookup exclude one another: no hot-plug
\* callback takes effect inside a public function between its validation of
\* the serial and its later use of the entry.  A removal, or a removal and a
\* re-arrival, concurrent with get_image or update_timestamp_offset ends in
\* the not-connected error or in the function completing on the entry it
\* validated: no other failure, no write into another entry.
C16_RegistryAccessExclusive ==
    /\ ~NoCall => ~call.lost
    /\ call.pc = "done" /\ call.lost =>
           call.res = "not_connected"


\* C17: a serial is bound to at most one live handle: no two GUI camera
\* positions of multi_pyspin_gui, and no two roles (primary, secondary) of
\* stereo_pyspin or stereo_bfs_pyspin, are bound to the same serial.  (The
\* registry is keyed by serial: one entry per serial by construction.)
C17_OneHandlePerSerial ==
    /\ \A k1, k2 \in DOMAIN SERIALS :
           k1 # k2 /\ SERIALS[k1] # None => SERIALS[k1] # SERIALS[k2]
    /\ stereo.CAM["primary"] # None => stereo.CAM["primary"] # stereo.CAM["secondary"]
    /\ bfs.CAM["primary"] # None => bfs.CAM["primary"] # bfs.CAM["secondary"]


\* C18: binding a camera by serial and then at once binding a configuration
\* path whose serial is the same camera keeps the entry and the camera's
\* lifecycle state: stereo_pyspin, find by serial then find by yaml path on
\* the same role; multi_pyspin, arrival of the serial then setup(yaml_path).
C18_RebindKeepsState ==
    [][/\ (/\ last.op = "find" /\ last.kind = "serial" /\ last.res = "ok"
           /\ Did("find") /\ last'.kind = "yaml" /\ last'.res = "ok"
           /\ last'.role = last.role /\ last'.serial = last.serial) =>
              /\ stereo'.CAM[last.role] = last.serial
              /\ last'.post = last'.pre
       /\ (/\ last.op = "arrival"
           /\ Did("setup") /\ last'.serial = last.serial) =>
              /\ SERIAL_DICT' = SERIAL_DICT
              /\ last'.post = last'.pre]_vars


\* The cameras that were registered (multi_pyspin) or bound (stereo_pyspin)
\* when teardown began.
TornDown == {e[1] : e \in last.log}

\* C19: at teardown both end-acquisition and de-initialize are attempted for
\* every registered camera; a failure of either is swallowed, skipping
\* neither the other step nor the remaining cameras, and the registry is
\* empty when teardown finishes.
C19_TeardownAttemptsBoth ==
    last.op = "destructor" =>
        /\ last.res = "ok"
        /\ \A s \in TornDown :
               /\ \E e \in last.log : e[1] = s /\ e[2] = "end_acquisition"
               /\ \E e \in last.log : e[1] = s /\ e[2] = "deinit"
        /\ SERIAL_DICT = {}
        /\ \A r \in Roles : stereo.CAM[r] = None

\* Teardown of two cameras in which a step on one of them failed.
C19_Witness ==
    /\ last.op = "destructor"
    /\ Cardinality(TornDown) = 2
    /\ \E e \in last.log : e[2] = "end_acquisition" /\ e[3] # "ok"
    /\ \E e \in last.log : e[2] = "deinit" /\ e[3] = "ok"

CallsFor(k) == {i \in DOMAIN conf.calls : conf.calls[i].idx = k}

\* C21: applying an init list, an entry without a `value` key issues exactly
\* one Execute on its node with a WO access-mode check, an entry with a
\* `value` key exactly one SetValue of that value with an RW check.
C21_ExecuteWoSetValueRw ==
    \A k \in DOMAIN conf.list :
        conf.list[k].kind = "one_key" =>
            /\ Cardinality(CallsFor(k)) = 1
            /\ \A i \in CallsFor(k) :
                   IF conf.list[k].arg = "absent"
                   THEN conf.calls[i].method = "Execute" /\ conf.calls[i].req = "WO"
                   ELSE /\ conf.calls[i].method = "SetValue"
                        /\ conf.calls[i].req = "RW"
                        /\ conf.calls[i].arg = MethodArg(conf.list[k].arg)

\* The value the successful SetValue calls so far have left in node f.
RECURSIVE Applied(_, _)
Applied(f, n) ==
    IF n = 0 THEN "default"
    ELSE IF /\ conf.calls[n].feature = f /\ conf.calls[n].method = "SetValue"
            /\ conf.calls[n].res = "ok"
         THEN conf.calls[n].arg
         ELSE Applied(f, n - 1)

\* C22: init commands go to the gateway in list order, one at a time; when
\* the command at index k fails, the commands before it have been applied
\* and stay applied, none after it is issued, none is issued twice, the error
\* reaches the caller, and the camera stays Initialized.
C22_FirstFailureAborts ==
    conf.pc # "idle" =>
        /\ \A i, j \in DOMAIN conf.calls : i < j => conf.calls[i].idx < conf.calls[j].idx
        /\ \A i \in DOMAIN conf.calls :
               /\ conf.calls[i].invoked <= 1
               /\ conf.calls[i].res # "ok" =>
                      /\ i = Len(conf.calls)
                      /\ conf.calls[i].idx = Len(conf.list)
                      /\ conf.pc = "done"
                      /\ conf.res = conf.calls[i].res
        /\ \A k \in DOMAIN conf.list :
               conf.list[k].kind = "one_key" => CallsFor(k) # {}
        /\ \A f \in Features : conf.value[f] = Applied(f, Len(conf.calls))
        /\ cam[conf.serial].init

\* A list whose first command was applied and whose second one failed.
C22_Witness ==
    /\ conf.pc = "done"
    /\ Len(conf.calls) = 2
    /\ conf.calls[1].res = "ok" /\ conf.calls[1].method = "SetValue"
    /\ conf.calls[2].res = "sdk_error"
    /\ conf.value[conf.calls[1].feature] = conf.calls[1].arg

\* C23: an entry with two or more top-level keys raises the malformed-config
\* error; no gateway command is issued for it or for a later entry.
C23_TwoKeysMalformed ==
    \A k \in DOMAIN conf.list :
        conf.list[k].kind = "two_keys" =>
            /\ conf.pc = "done" /\ conf.res = "malformed"
            /\ k = Len(conf.list)
            /\ \A i \in DOMAIN conf.calls : conf.calls[i].idx < k

\* A two-key entry after a command that was applied.
C23_Witness ==
    /\ Len(conf.list) = 2
    /\ conf.list[2].kind = "two_keys"
    /\ Len(conf.calls) = 1 /\ conf.calls[1].res = "ok"
    /\ conf.res = "malformed"

\* C24: a gateway command invokes the method at most once, and not at all
\* when the required access mode differs from the node's or when the
\* argument is a nested PySpin reference: then the error is raised before
\* the method and the node is unchanged.
C24_CheckedBeforeInvoked ==
    \A i \in DOMAIN conf.calls :
        /\ conf.calls[i].invoked <= 1
        /\ (\/ conf.calls[i].req # "none" /\ conf.calls[i].mode # conf.calls[i].req
            \/ conf.list[conf.calls[i].idx].arg = "nested") =>
               /\ conf.calls[i].invoked = 0
               /\ conf.calls[i].res \in {"access_error", "nested_error"}
               /\ conf.calls[i].after = conf.calls[i].before

\* A command refused for its nested argument although its access mode matched.
C24_Witness ==
    /\ Len(conf.calls) = 1
    /\ conf.calls[1].res = "nested_error"
    /\ conf.calls[1].mode = conf.calls[1].req
    /\ conf.calls[1].invoked = 0


\* The offset of sample i in nanoseconds: its wall clock reading, less its
\* latch value.
OffsetNs(i) == est.pairs[i].wall * NsPerSec - est.pairs[i].latch

\* v is the k-th smallest of the offsets of the samples taken.
IsKth(v, k) ==
    /\ Cardinality({i \in DOMAIN est.pairs : OffsetNs(i) < v}) < k
    /\ Cardinality({i \in DOMAIN est.pairs : OffsetNs(i) <= v}) >= k

\* C25: the estimator latches exactly `samples` times, takes wall clock minus
\* latch (nanoseconds as seconds) for each sample and returns the median of
\* these offsets: the middle one, or for an even count the midpoint of the
\* two middle ones; the samples determine the result, and one outlier among
\* otherwise equal offsets does not move it.
C25_MedianOfOffsets ==
    est.pc = "done" =>
        /\ est.latches = est.n /\ Len(est.pairs) = est.n
        /\ \E i, j \in DOMAIN est.pairs :
               /\ IsKth(OffsetNs(i), (est.n + 1) \div 2)
               /\ IsKth(OffsetNs(j), est.n \div 2 + 1)
               /\ est.res.num * 2 = (OffsetNs(i) + OffsetNs(j)) * est.res.den
        /\ \A o \in DOMAIN est.pairs :
               (/\ est.n >= 3
                /\ \A i, j \in DOMAIN est.pairs \ {o} : OffsetNs(i) = OffsetNs(j))
               => \A i \in DOMAIN est.pairs \ {o} :
                      est.res.num = OffsetNs(i) * est.res.den

\* Four samples whose two middle offsets differ by a nanosecond, the first
\* sample a second away from the others.
C25_Witness ==
    /\ est.pc = "done" /\ est.n = 4
    /\ est.res.den = 2
    /\ est.res.num = NsPerSec - 1
    /\ OffsetNs(1) < 0
    /\ \A i \in 2..4 : OffsetNs(i) > 0


\* C26: the capture loop reads the stop request between images only: when
\* the request is seen, the image just taken has left its burst loop and
\* acquisition has been ended on every camera of the set, no further image
\* is started and the loop is over.
C26_StopBetweenImages ==
    [][hist'.stopped =>
          /\ cap' = IdleCap
          /\ hist'.ended = hist'.cam_nums
          /\ hist'.result # "none"
          /\ ~hist.stopped =>
                 /\ cap.pc = "next"
                 /\ hist.ended = cap.cam_nums
                 /\ hist'.images = cap.num_image + 1]_vars

\* A capture of two cameras stopped after its first image of two.
C26_Witness ==
    /\ hist.stopped
    /\ hist.requested = 2 /\ hist.images = 1
    /\ Len(hist.cam_nums) = 2
    /\ hist.ended = hist.cam_nums
    /\ cap = IdleCap


\* C27: acquisition for image i (counted from 0) is never started before
\* i times the delay has elapsed since the capture began.
C27_NotBeforeDelay ==
    \A k \in DOMAIN pace.begun : pace.begun[k] >= (k - 1) * pace.delay

\* The second image started exactly when its delay had elapsed.
C27_Witness ==
    /\ pace.delay = 2
    /\ Len(pace.begun) = 2
    /\ pace.begun[2] = 2

\* C29: whenever acquisition for image i starts more than the tolerance
\* later than i times the delay after the capture began, the delay warning
\* is printed for that image.
C29_LateStartWarned ==
    \A k \in DOMAIN pace.begun :
        pace.begun[k] - (k - 1) * pace.delay > DELAY_WARNING_TOLERANCE
            => (k - 1) \in pace.warned


\* Callback id has been taken from the queue and called.
Ran(id) == \E i \in DOMAIN gui.order : gui.order[i] = id

\* Callbacks are called in the order they were put, none twice, never one
\* inside another, and a message box is shown for each one that raised.
OneAtATimeFifo ==
    /\ \A i, j \in DOMAIN gui.order : i < j => gui.order[i] < gui.order[j]
    /\ gui.depth <= 1
    /\ gui.raised \subseteq gui.shown

\* C28: the main loop runs the GUI callbacks one at a time in FIFO order; a
\* callback put in the queue while the window exists is eventually run, once;
\* a callback that raises is reported and the later ones still run; two
\* captures never overlap.
C28_EveryCallbackRuns ==
    /\ []OneAtATimeFifo
    /\ \A id \in 1..MaxCallbacks : (id \in DOMAIN gui.kind) ~> Ran(id)

\* C28, amended: as C28, but a callback still in the queue when the main
\* loop ends, the window having been closed, is dropped without being run.
C28_RunsUnlessWindowClosed ==
    /\ []OneAtATimeFifo
    /\ \A id \in 1..MaxCallbacks :
           (id \in DOMAIN gui.kind) ~> (Ran(id) \/ (gui.pc = "exited" /\ ~gui.window))

\* A capture that raised, and the two callbacks put in the queue while it
\* ran, run after it in their order.
C28_Witness ==
    /\ gui.order = <<1, 2, 3>>
    /\ gui.kind[1] = "capture"
    /\ 1 \in gui.shown
    /\ gui.window
    /\ gui.running = 0


\* C30: every image buffer a pass of the streaming preview obtains from a
\* camera is released in the same pass, also when the frame is incomplete or
\* when the grab of a later camera fails.
C30_PreviewReleasesAll ==
    preview.grabbed \subseteq preview.released


\* The stream flags _save_images has cached: those of the call's entry.
CachedStreams == IF cap.pc = "idle" THEN STREAMS ELSE cap.streams

\* C31: _save_images caches the stream flags and stops all streams; when the
\* capture completes normally, every camera that streamed before the call,
\* in the captured set or not, streams again with its flag set.
C31_StreamsRestored ==
    [][(/\ program = "multi"
        /\ cap.pc \in {"idle", "next"}
        /\ cap'.pc = "idle"
        /\ hist'.result = "ok")
       => \A k \in Slots(NUM_CAMS) :
              CachedStreams[k] => /\ STREAMS'[k]
                                  /\ SERIALS[k] # None
                                  /\ cam'[SERIALS[k]].streaming]_vars


\* C32: in the stereo GUI, when Save Image(s) reaches the first start of
\* acquisition of the capture, no primary or secondary stream is active: the
\* stream flags are false and the bound cameras are not streaming.
C32_StreamsStoppedBeforeStart ==
    (program = "stereo" /\ stereo.pc = "save_start_secondary" /\ stereo.i = 0)
        => \A r \in Roles :
               /\ ~stereo.STREAM[r]
               /\ stereo.CAM[r] # None => ~cam[stereo.CAM[r]].streaming


C34_NumCamsResets ==
    (program = "multi" /\ cap.pc = "idle") =>
        \A n \in 0..MaxNumCams :
            LET r == num_cams(SERIAL_DICT, cam, SERIALS, STREAMS, NUM_CAMS, n)
            IN  IF n >= 1
                THEN /\ r.res = "ok"
                     /\ r.NUM_CAMS = n
                     /\ \A k \in Slots(n) : r.SERIALS[k] = None /\ ~r.STREAMS[k]
                     /\ \A s \in Serials : ~r.cam[s].streaming
                ELSE /\ r.res # "ok"
                     /\ r.NUM_CAMS = NUM_CAMS /\ r.SERIALS = SERIALS /\ r.STREAMS = STREAMS
                     /\ r.cam = cam


\* C35: the exit-time deinit of stereo_bfs_pyspin unwinds both cameras: when
\* deinit has run, the command list of __deinit_primary (EndAcquisition ...
\* DeInit) was executed on the primary camera if that camera was set, also
\* when a command of the secondary camera's list failed.
C35_DeinitUnwindsBoth ==
    (program = "bfs" /\ bfs.pc = "done" /\ bfs.CAM["primary"] # None)
        => "primary" \in bfs.deinit


\* C36: in the multi-camera GUI, whenever the main loop is between callbacks,
\* the stream flag of every slot is true exactly when the camera bound to the
\* slot is registered and streaming.
C36_StreamFlagMatchesCamera ==
    (program = "multi" /\ cap.pc = "idle")
        => \A k \in Slots(NUM_CAMS) :
               STREAMS[k] <=> /\ SERIALS[k] # None
                              /\ SERIALS[k] \in SERIAL_DICT
                              /\ cam[SERIALS[k]].streaming


\* C37: when a camera of the capture set was removed by a hot-plug event
\* while the capture was in progress (acquisition started), the capture has
\* ended with an error and no camera of the set that is still connected is
\* left streaming.
C37_RemovalEndsOthers ==
    (program = "multi" /\ cap.pc = "idle" /\ "removed" \in hist.faults)
        => /\ hist.result = "error"
           /\ \A s \in CaptureSerials(SERIALS, hist.cam_nums) \ {None} :
                  s \in SERIAL_DICT => ~cam[s].streaming


\* The gateway commands made for entry i of the init list.
CallsOfEntry(i) == {j \in 1..Len(conf.calls) : conf.calls[j].idx = i}

\* C38: every entry of the init list the loop has gone through resulted in
\* exactly one gateway command or raised an error (no entry is skipped), and
\* a configuration whose init field is not a list does not return normally.
C38_NoEntrySkipped ==
    /\ \A i \in 1..Len(conf.list) :
           \/ Cardinality(CallsOfEntry(i)) = 1
           \/ i = Len(conf.list) /\ conf.res \notin {"ok", "pending"}
    /\ conf.init = "other" => conf.res # "ok"

====
